---- MODULE Spec2Model ----
(***************************************************************************)
(* Model of the chunked-protocol runtime of splunklib.searchcommands:      *)
(* the buffered record writer (internals.py, RecordWriter/RecordWriterV2)  *)
(* and the getinfo/execute engine (search_command.py,                      *)
(* SearchCommand._process_protocol_v2, _execute, _records).                *)
(*                                                                         *)
(* Python values are modelled as follows.  None is the string "None";      *)
(* an optional boolean argument is one of "None", "True", "False"; an      *)
(* optional integer is a sequence of length 0 (None) or 1.  An operation   *)
(* of the writer is an operator from a writer object to a result           *)
(* [w |-> the writer afterwards, raised |-> the exception that escaped].   *)
(***************************************************************************)
EXTENDS Integers, Sequences, FiniteSets, TLC

\* ------------------------------------------------------------------ bounds
MaxCalls == 4
MaxRows == 2
MaxArgs == 2
MaxChunks == 2
MaxBody == 1
MaxFrames == 2
MaxCut == 2
MaxStr == 2
MaxItems == 2
MaxText == 4
MaxAssigned == 2
MaxSupplied == 1
\* The longest text handed to CommandLineParser.unquote.
MaxQuoted == 5

\* ------------------------------------------------------- program constants
DefaultMaxResultRows == 50000

None == "None"
Flags == {"None", "True", "False"}
FieldSets == {<<"a">>, <<"a", "b">>}
MessageTypes == {"ERROR", "INFO"}
MetricNames == {"m1"}

\* ---------------------------------------------------------------- helpers
RECURSIVE SeqSum(_)
SeqSum(s) == IF s = <<>> THEN 0 ELSE Head(s) + SeqSum(Tail(s))

RECURSIVE SelectIndices(_, _, _)
SelectIndices(s, i, keep) ==
    IF i > Len(s) THEN <<>>
    ELSE (IF i \in keep THEN <<s[i]>> ELSE <<>>) \o SelectIndices(s, i + 1, keep)

\* ============================================================ byte streams
\* A text (a Python byte string) is the sequence of its characters, each a
\* string of length 1.
Digits == <<"0", "1", "2", "3", "4", "5", "6", "7", "8", "9">>

\* unicode(n) for a non-negative integer n
RECURSIVE Decimal(_)
Decimal(n) == IF n < 10 THEN <<Digits[n + 1]>> ELSE Decimal(n \div 10) \o <<Digits[(n % 10) + 1]>>

IsDigit(c) == \E d \in DOMAIN Digits : Digits[d] = c

DigitValue(c) == (CHOOSE d \in DOMAIN Digits : Digits[d] = c) - 1

\* int(text) for a text of decimal digits
RECURSIVE int(_)
int(text) ==
    IF Len(text) = 1 THEN DigitValue(text[1])
    ELSE 10 * int(SubSeq(text, 1, Len(text) - 1)) + DigitValue(text[Len(text)])

\* \s of the re module, for the characters of the model
IsSpace(c) == c \in {" ", "\t", "\r", "\n"}

\* The first position at or after p that holds no character of the class.
RECURSIVE SkipSpace(_, _)
SkipSpace(text, p) ==
    IF p <= Len(text) /\ IsSpace(text[p]) THEN SkipSpace(text, p + 1) ELSE p

RECURSIVE SkipDigits(_, _)
SkipDigits(text, p) ==
    IF p <= Len(text) /\ IsDigit(text[p]) THEN SkipDigits(text, p + 1) ELSE p

\* Does the literal start at position p of the text?
StartsWith(text, p, literal) ==
    /\ p + Len(literal) - 1 <= Len(text)
    /\ SubSeq(text, p, p + Len(literal) - 1) = literal

Chunked == <<"c", "h", "u", "n", "k", "e", "d">>

\* SearchCommand._header.match(header):
\*     chunked\s+1.0\s*,\s*(\d+)\s*,\s*(\d+)\s*\n
\* applied to a line readline() returned, which holds at most one newline,
\* as its last character.  The '.' of the pattern matches every character
\* but a newline; a \s* that runs into the final newline gives it back.
header_match(header) ==
    LET p1 == Len(Chunked) + 1
        p2 == SkipSpace(header, p1)
        p3 == SkipSpace(header, p2 + 3)
        p4 == SkipSpace(header, p3 + 1)
        p5 == SkipDigits(header, p4)
        p6 == SkipSpace(header, p5)
        p7 == SkipSpace(header, p6 + 1)
        p8 == SkipDigits(header, p7)
        p9 == SkipSpace(header, p8)
        matched ==
            /\ StartsWith(header, 1, Chunked)
            /\ p2 > p1
            /\ p2 + 2 <= Len(header)
            /\ header[p2] = "1" /\ header[p2 + 1] # "\n" /\ header[p2 + 2] = "0"
            /\ p3 <= Len(header) /\ header[p3] = ","
            /\ p5 > p4
            /\ p6 <= Len(header) /\ header[p6] = ","
            /\ p8 > p7
            /\ p9 = Len(header) + 1 /\ header[Len(header)] = "\n"
    IN IF matched
       THEN [matched |-> TRUE,
             metadata_length |-> int(SubSeq(header, p4, p5 - 1)),
             body_length |-> int(SubSeq(header, p7, p8 - 1))]
       ELSE [matched |-> FALSE, metadata_length |-> 0, body_length |-> 0]

\* ifile.readline() at position pos (the number of characters consumed):
\* the text up to and including the next newline, or up to the end.
RECURSIVE LineEnd(_, _)
LineEnd(data, p) ==
    IF p > Len(data) THEN Len(data)
    ELSE IF data[p] = "\n" THEN p
    ELSE LineEnd(data, p + 1)

readline(data, pos) == SubSeq(data, pos + 1, LineEnd(data, pos + 1))

\* ifile.read(n) at position pos: n characters, or fewer at the end.
read(data, pos, n) == SubSeq(data, pos + 1, IF pos + n <= Len(data) THEN pos + n ELSE Len(data))

\* The JSON documents a host of the model sends as metadata, with the object
\* MetadataDecoder makes of each.
EmptyObjectText == <<"{", "}">>

FinishedObjectText ==
    <<"{", "\"", "f", "i", "n", "i", "s", "h", "e", "d", "\"", ":", "t", "r", "u", "e", "}">>

MetadataTexts == {EmptyObjectText, FinishedObjectText}

\* MetadataDecoder().decode(text).  Of the texts that reach it in the model
\* (the documents above and their prefixes, the empty text among them) only
\* the complete documents are JSON: json raises ValueError for the others.
decode(text) ==
    IF text = EmptyObjectText THEN [ok |-> TRUE, object |-> [finished |-> None]]
    ELSE IF text = FinishedObjectText THEN [ok |-> TRUE, object |-> [finished |-> "True"]]
    ELSE [ok |-> FALSE, object |-> [finished |-> None]]

NoChunk == [metadata |-> [finished |-> None], body |-> <<>>]

\* _read_chunk on the stream data at position pos.  The result tells what
\* the call did: returned "None", returned a "chunk", or "raised" an error;
\* pos is the position of the stream afterwards; metadata_length,
\* body_length and metadata_read are the lengths the header declared and
\* the number of metadata characters read.
read_chunk(data, pos) ==
    LET header == readline(data, pos)
        match == header_match(header)
        pos1 == pos + Len(header)
        metadata == read(data, pos1, match.metadata_length)
        pos2 == pos1 + Len(metadata)
        decoded == decode(metadata)
        body == read(data, pos2, match.body_length)
        pos3 == pos2 + Len(body)
    IN IF header = <<>>
       THEN [result |-> "None", chunk |-> NoChunk, pos |-> pos1, error |-> None,
             metadata_length |-> 0, body_length |-> 0, metadata_read |-> 0]
       ELSE IF ~match.matched
       THEN [result |-> "raised", chunk |-> NoChunk, pos |-> pos1,
             error |-> "RuntimeError: Failed to parse transport header",
             metadata_length |-> 0, body_length |-> 0, metadata_read |-> 0]
       ELSE IF ~decoded.ok
       THEN [result |-> "raised", chunk |-> NoChunk, pos |-> pos2,
             error |-> "RuntimeError: Failed to parse metadata",
             metadata_length |-> match.metadata_length, body_length |-> match.body_length,
             metadata_read |-> Len(metadata)]
       ELSE [result |-> "chunk", chunk |-> [metadata |-> decoded.object, body |-> body],
             pos |-> pos3, error |-> None,
             metadata_length |-> match.metadata_length, body_length |-> match.body_length,
             metadata_read |-> Len(metadata)]

\* 'chunked 1.0,' + unicode(metadata_length) + ',' + unicode(body_length) + '\n'
start_line(metadata_length, body_length) ==
    Chunked \o <<" ", "1", ".", "0", ",">> \o Decimal(metadata_length) \o <<",">> \o
    Decimal(body_length) \o <<"\n">>

\* ------------------------------------------------- the streams of a host
\* A frame as a host writes it.  header tells how the host writes the
\* header line: "plain" as this library does, "spaced" with the white space
\* the pattern allows, "other" a line of another protocol version.
HeaderLine(header, metadata_length, body_length) ==
    IF header = "plain" THEN start_line(metadata_length, body_length)
    ELSE IF header = "spaced"
    THEN Chunked \o <<" ", " ", "1", ".", "0", " ", ",", " ">> \o Decimal(metadata_length) \o
         <<" ", ",", " ">> \o Decimal(body_length) \o <<" ", "\n">>
    ELSE Chunked \o <<" ", "2", ".", "0", ",">> \o Decimal(metadata_length) \o <<",">> \o
         Decimal(body_length) \o <<"\n">>

FrameText(frame) ==
    HeaderLine(frame.header, Len(frame.metadata), Len(frame.body)) \o frame.metadata \o frame.body

\* Bodies: no data, text with a newline in it, text that is a header line.
StreamBodies == {<<>>, <<"x", "\n", "y">>, start_line(0, 1)}

\* Frames with well-formed metadata (none, or a JSON object), frames whose
\* metadata is not JSON, and frames with the other header lines.
HostFrames ==
    { [header |-> "plain", metadata |-> m, body |-> b] :
        m \in {<<>>, <<"{">>} \cup MetadataTexts, b \in StreamBodies }
    \cup
    { [header |-> "spaced", metadata |-> EmptyObjectText, body |-> <<"x", "\n", "y">>],
      [header |-> "other", metadata |-> EmptyObjectText, body |-> <<>>] }

WellFormed(frame) ==
    /\ frame.header \in {"plain", "spaced"}
    /\ frame.metadata \in {<<>>} \cup MetadataTexts

RECURSIVE StreamText(_)
StreamText(frames) ==
    IF frames = <<>> THEN <<>> ELSE FrameText(Head(frames)) \o StreamText(Tail(frames))

\* ====================================================== multi-value codec
\* Python values: [type |-> the name of the type, v |-> the value].  The
\* value of a str is its text, of a list the sequence of its items.
NoneValue == [type |-> "NoneType", v |-> <<>>]

BoolValue(b) == [type |-> "bool", v |-> <<b>>]

IntValue(n) == [type |-> "int", v |-> <<n>>]

StrValue(text) == [type |-> "str", v |-> text]

ListValue(elements) == [type |-> "list", v |-> elements]

\* An optional text: <<>> is None, <<text>> is the text.
Absent == <<>>

Present(text) == <<text>>

\* to_string of _encode_value, for None, bool, str and int items
to_string(item) ==
    IF item.type = "NoneType" THEN <<>>
    ELSE IF item.type = "bool" THEN (IF item.v[1] THEN <<"t">> ELSE <<"f">>)
    ELSE IF item.type = "str" THEN item.v
    ELSE Decimal(item.v[1])

\* v.replace(b'$', b'$$')
RECURSIVE double_dollars(_)
double_dollars(v) ==
    IF v = <<>> THEN <<>>
    ELSE (IF Head(v) = "$" THEN <<"$", "$">> ELSE <<Head(v)>>) \o double_dollars(Tail(v))

\* reduce(lambda (s, m), v: (s + v + b'\n', m + v.replace(b'$', b'$$') + b'$;$'), value, (s, m))
RECURSIVE reduce(_, _, _)
reduce(value, s, m) ==
    IF value = <<>> THEN [s |-> s, m |-> m]
    ELSE reduce(Tail(value),
                s \o Head(value) \o <<"\n">>,
                m \o double_dollars(Head(value)) \o <<"$", ";", "$">>)

\* _encode_value that returns the multi-value text without its last '$'.
encode_value_cut_short(value) ==
    IF value.type # "list" THEN [sv |-> Present(to_string(value)), mv |-> Absent]
    ELSE IF Len(value.v) = 0 THEN [sv |-> Absent, mv |-> Absent]
    ELSE IF Len(value.v) = 1 THEN [sv |-> Present(to_string(value.v[1])), mv |-> Absent]
    ELSE LET strings == [i \in DOMAIN value.v |-> to_string(value.v[i])]
             r == reduce(strings, <<>>, <<"$">>)
         IN [sv |-> Present(SubSeq(r.s, 1, Len(r.s) - 1)),
             mv |-> Present(SubSeq(r.m, 1, Len(r.m) - 3))]

\* RecordWriter._encode_value: the pair (sv, mv)
encode_value(value) ==
    IF value.type # "list" THEN [sv |-> Present(to_string(value)), mv |-> Absent]
    ELSE IF Len(value.v) = 0 THEN [sv |-> Absent, mv |-> Absent]
    ELSE IF Len(value.v) = 1 THEN [sv |-> Present(to_string(value.v[1])), mv |-> Absent]
    ELSE LET strings == [i \in DOMAIN value.v |-> to_string(value.v[i])]
             r == reduce(strings, <<>>, <<"$">>)
         IN [sv |-> Present(SubSeq(r.s, 1, Len(r.s) - 1)),
             mv |-> Present(SubSeq(r.m, 1, Len(r.m) - 2))]

\* SearchCommand._encoded_value:  \$(?P<item>(?:\$\$|[^$])*)\$(?:;|$)
\* The '$' at the end of the pattern matches at the end of the text and
\* before a newline that ends the text.
AtEnd(mv, q) == q = Len(mv) + 1 \/ (q = Len(mv) /\ mv[q] = "\n")

\* \$(?:;|$) at position p: does the item close here?
closes(mv, p) ==
    /\ p <= Len(mv)
    /\ mv[p] = "$"
    /\ (p + 1 <= Len(mv) /\ mv[p + 1] = ";") \/ AtEnd(mv, p + 1)

\* (?:\$\$|[^$])* followed by the rest of the pattern, from position p, as
\* the backtracking matcher tries it: one more '$$', else one more other
\* character, else no more repetition.  The result is the position of the
\* '$' that closes the item, 0 if there is no match.
RECURSIVE item_end(_, _)
item_end(mv, p) ==
    LET more == IF StartsWith(mv, p, <<"$", "$">>) THEN item_end(mv, p + 2)
                ELSE IF p <= Len(mv) /\ mv[p] # "$" THEN item_end(mv, p + 1)
                ELSE 0
    IN IF more # 0 THEN more
       ELSE IF closes(mv, p) THEN p
       ELSE 0

\* _encoded_value.findall(mv), searching from position p
RECURSIVE findall(_, _)
findall(mv, p) ==
    IF p > Len(mv) THEN <<>>
    ELSE LET close == IF mv[p] = "$" THEN item_end(mv, p + 1) ELSE 0 IN
         IF close = 0 THEN findall(mv, p + 1)
         ELSE <<SubSeq(mv, p + 1, close - 1)>> \o
              findall(mv, IF close + 1 <= Len(mv) /\ mv[close + 1] = ";" THEN close + 2 ELSE close + 1)

\* match.replace('$$', '$')
RECURSIVE single_dollars(_)
single_dollars(match) ==
    IF match = <<>> THEN <<>>
    ELSE IF StartsWith(match, 1, <<"$", "$">>) THEN <<"$">> \o single_dollars(Tail(Tail(match)))
    ELSE <<Head(match)>> \o single_dollars(Tail(match))

\* _decode_list that takes the items as they are matched.
decode_list_unescaped(mv) == findall(mv, 1)

\* SearchCommand._decode_list(mv) for a text mv
decode_list(mv) == LET matches == findall(mv, 1) IN [i \in DOMAIN matches |-> single_dollars(matches[i])]

\* _decode_list of _decode_list_1_performance.py, the loop from index i on
\* (indices start at 1 here): in_value, value and l are the variables of
\* the loop.  The result is None or the list l; a value that is still open
\* at the end of the text is dropped.
RECURSIVE scan_list(_, _, _, _, _)
scan_list(mv, i, in_value, value, l) ==
    IF i > Len(mv) THEN [result |-> "list", list |-> l]
    ELSE IF ~in_value
    THEN IF mv[i] = "$" THEN scan_list(mv, i + 1, TRUE, value, l)
         ELSE IF mv[i] # ";" THEN [result |-> None, list |-> <<>>]
         ELSE scan_list(mv, i + 1, FALSE, value, l)
    ELSE IF mv[i] = "$" /\ i + 1 <= Len(mv) /\ mv[i + 1] = "$"
         THEN scan_list(mv, i + 2, TRUE, Append(value, "$"), l)
         ELSE IF mv[i] = "$" THEN scan_list(mv, i + 1, FALSE, <<>>, Append(l, value))
         ELSE scan_list(mv, i + 1, TRUE, Append(value, mv[i]), l)

\* _decode_list(mv) of _decode_list_1_performance.py
decode_list_scanner(mv) ==
    IF Len(mv) = 0 THEN [result |-> None, list |-> <<>>]
    ELSE scan_list(mv, 1, FALSE, <<>>, <<>>)

\* The characters of the texts of the model: an ordinary character and the
\* two characters the multi-value encoding gives a meaning.
Chars == {"a", "$", ";"}

Texts(n) == UNION {[1..k -> Chars] : k \in 0..n}

\* The values a caller hands to the codec: scalars of every type that
\* to_string treats on its own, among them strings with the characters csv
\* quotes, and lists of them.
Strings == {StrValue(text) : text \in Texts(MaxStr)}

Scalars ==
    {NoneValue, BoolValue(TRUE), BoolValue(FALSE), IntValue(0), IntValue(12),
     StrValue(<<",", "\"">>), StrValue(<<"\r", "\n">>)} \cup Strings

\* Lists of n strings; the items after the second have at most one
\* character.
ItemLists(n) ==
    {[i \in 1..n |-> IF i <= 2 THEN first[i] ELSE StrValue(more[i])] :
        first \in [1..(IF n < 2 THEN n ELSE 2) -> Strings], more \in [3..n -> Texts(1)]}

Lists ==
    {ListValue(l) : l \in UNION {ItemLists(n) : n \in 0..MaxItems}} \cup
    {ListValue(<<NoneValue, BoolValue(TRUE)>>), ListValue(<<IntValue(12)>>),
     ListValue(<<StrValue(<<",", "\"">>), StrValue(<<"\r", "\n">>)>>)}

\* The records of a round trip: {a: '1', b: value} for every value of the
\* model, and the same record without its first field.
Records ==
    {[fields |-> <<"a", "b">>, serial |-> 1, values |-> <<StrValue(<<"1">>), value>>] :
        value \in Scalars \cup Lists}
    \cup
    {[fields |-> <<"b">>, serial |-> 1, values |-> <<value>>] :
        value \in {StrValue(<<>>), StrValue(<<"\r", "\n">>), ListValue(<<StrValue(<<"a">>), StrValue(<<>>)>>)}}

\* ================================================================= csv text
\* CsvDialect: delimiter ',', quotechar '"', doublequote, lineterminator
\* '\r\n', QUOTE_MINIMAL, skipinitialspace False.
lineterminator == <<"\r", "\n">>

\* A field is quoted when it holds the delimiter, the quote character or a
\* character of the line terminator.
NeedsQuotes(field) == \E i \in DOMAIN field : field[i] \in {",", "\"", "\r", "\n"}

RECURSIVE DoubleQuotes(_)
DoubleQuotes(field) ==
    IF field = <<>> THEN <<>>
    ELSE (IF Head(field) = "\"" THEN <<"\"", "\"">> ELSE <<Head(field)>>) \o DoubleQuotes(Tail(field))

\* One cell of a row as csv.writer writes it; a cell is an optional text
\* and None is written as the empty field.
join_append(cell) ==
    LET field == IF cell = Absent THEN <<>> ELSE cell[1]
    IN IF NeedsQuotes(field) THEN <<"\"">> \o DoubleQuotes(field) \o <<"\"">> ELSE field

RECURSIVE join_fields(_)
join_fields(cells) ==
    IF cells = <<>> THEN <<>>
    ELSE IF Len(cells) = 1 THEN join_append(cells[1])
    ELSE join_append(cells[1]) \o <<",">> \o join_fields(Tail(cells))

\* csv.writer.writerow(cells): a row of one empty field is written quoted.
writerow(cells) ==
    IF Len(cells) = 1 /\ join_append(cells[1]) = <<>> THEN <<"\"", "\"">> \o lineterminator
    ELSE join_fields(cells) \o lineterminator

\* self._buffer.getvalue(): the text of the rows written since the last
\* _clear, each row of the buffer holding the cells handed to writerow.
RECURSIVE getvalue(_)
getvalue(buffer) ==
    IF buffer = <<>> THEN <<>> ELSE writerow(Head(buffer).cells) \o getvalue(Tail(buffer))

\* The reader of the csv module.  NUL is the end-of-line mark the reader
\* feeds to its state machine after the characters of every line.
NUL == "NUL"

parse_reset == [state |-> "START_RECORD", field |-> <<>>, fields |-> <<>>, error |-> FALSE]

parse_save_field(r) == [r EXCEPT !.fields = Append(@, r.field), !.field = <<>>]

parse_add_char(r, c) == [r EXCEPT !.field = Append(@, c)]

EndOfField(r, c) ==
    [parse_save_field(r) EXCEPT !.state = IF c = NUL THEN "START_RECORD" ELSE "EAT_CRNL"]

parse_start_field(r, c) ==
    IF c \in {"\n", "\r", NUL} THEN EndOfField(r, c)
    ELSE IF c = "\"" THEN [r EXCEPT !.state = "IN_QUOTED_FIELD"]
    ELSE IF c = "," THEN [parse_save_field(r) EXCEPT !.state = "START_FIELD"]
    ELSE [parse_add_char(r, c) EXCEPT !.state = "IN_FIELD"]

parse_process_char(r, c) ==
    IF r.state = "START_RECORD"
    THEN IF c = NUL THEN r
         ELSE IF c \in {"\n", "\r"} THEN [r EXCEPT !.state = "EAT_CRNL"]
         ELSE parse_start_field(r, c)
    ELSE IF r.state = "START_FIELD" THEN parse_start_field(r, c)
    ELSE IF r.state = "IN_FIELD"
    THEN IF c \in {"\n", "\r", NUL} THEN EndOfField(r, c)
         ELSE IF c = "," THEN [parse_save_field(r) EXCEPT !.state = "START_FIELD"]
         ELSE parse_add_char(r, c)
    ELSE IF r.state = "IN_QUOTED_FIELD"
    THEN IF c = NUL THEN r
         ELSE IF c = "\"" THEN [r EXCEPT !.state = "QUOTE_IN_QUOTED_FIELD"]
         ELSE parse_add_char(r, c)
    ELSE IF r.state = "QUOTE_IN_QUOTED_FIELD"
    THEN IF c = "\"" THEN [parse_add_char(r, c) EXCEPT !.state = "IN_QUOTED_FIELD"]
         ELSE IF c = "," THEN [parse_save_field(r) EXCEPT !.state = "START_FIELD"]
         ELSE IF c \in {"\n", "\r", NUL} THEN EndOfField(r, c)
         ELSE [parse_add_char(r, c) EXCEPT !.state = "IN_FIELD"]
    ELSE \* EAT_CRNL
         IF c \in {"\n", "\r"} THEN r
         ELSE IF c = NUL THEN [r EXCEPT !.state = "START_RECORD"]
         ELSE [r EXCEPT !.error = TRUE]

\* list(csv.reader(StringIO(body), dialect=CsvDialect)) from position p of
\* body: the lines of body end at '\n'; a row is complete when the state
\* machine is back in START_RECORD at the end of a line, and at the end of
\* the text a field in progress is saved.
RECURSIVE reader(_, _, _, _)
reader(body, p, r, rows) ==
    IF r.error THEN [rows |-> rows, error |-> TRUE]
    ELSE IF p > Len(body)
    THEN LET r1 == IF p = 1 \/ body[p - 1] = "\n" THEN r ELSE parse_process_char(r, NUL)
         IN IF p > 1 /\ body[p - 1] # "\n" /\ r1.state = "START_RECORD"
            THEN [rows |-> Append(rows, r1.fields), error |-> FALSE]
            ELSE IF r1.field # <<>> \/ r1.state = "IN_QUOTED_FIELD"
            THEN [rows |-> Append(rows, parse_save_field(r1).fields), error |-> FALSE]
            ELSE [rows |-> rows, error |-> FALSE]
    ELSE LET r1 == parse_process_char(r, body[p])
             r2 == IF body[p] = "\n" /\ ~r1.error THEN parse_process_char(r1, NUL) ELSE r1
         IN IF body[p] = "\n" /\ ~r1.error /\ r2.state = "START_RECORD"
            THEN reader(body, p + 1, parse_reset, Append(rows, r2.fields))
            ELSE reader(body, p + 1, r2, rows)

\* ------------------------------------------------------------------ records
\* A record is an ordered dictionary: [fields |-> its keys in order,
\* values |-> their values]; a record the writer is handed also carries a
\* serial number that tells the records of a run apart.
MvPrefix == <<"_", "_", "m", "v", "_">>

\* unicode(key).encode('utf-8') of a field name, names being one letter
NameText(name) == <<name>>

HasKey(record, key) == \E i \in DOMAIN record.fields : record.fields[i] = key

\* record.get(fieldname, None)
get(record, fieldname) ==
    IF HasKey(record, fieldname)
    THEN record.values[CHOOSE i \in DOMAIN record.fields : record.fields[i] = fieldname]
    ELSE NoneValue

\* record[key] = value
setitem(record, key, value) ==
    IF HasKey(record, key)
    THEN [record EXCEPT !.values = [i \in DOMAIN @ |-> IF record.fields[i] = key THEN value ELSE @[i]]]
    ELSE [fields |-> Append(record.fields, key), values |-> Append(record.values, value)]

\* The record number serial of a run: every field holds the number.
Numbered(fields, serial) ==
    [fields |-> fields, serial |-> serial, values |-> [i \in DOMAIN fields |-> IntValue(serial)]]

\* The header row of write_record: every field name followed by its
\* '__mv_' companion.
HeaderCells(fields) ==
    [j \in 1..(2 * Len(fields)) |->
        IF j % 2 = 1 THEN Present(NameText(fields[(j + 1) \div 2]))
        ELSE Present(MvPrefix \o NameText(fields[j \div 2]))]

\* The data row taken over the keys of the record, not of the header.
ValueCells_of_record(fieldnames, record) ==
    [j \in 1..(2 * Len(record.fields)) |->
        IF j % 2 = 1 THEN encode_value(get(record, record.fields[(j + 1) \div 2])).sv
        ELSE encode_value(get(record, record.fields[j \div 2])).mv]

\* The data row of write_record: the pair _encode_value gives for every
\* field of the header, None standing for a field the record lacks.
ValueCells(fieldnames, record) ==
    [j \in 1..(2 * Len(fieldnames)) |->
        IF j % 2 = 1 THEN encode_value(get(record, fieldnames[(j + 1) \div 2])).sv
        ELSE encode_value(get(record, fieldnames[j \div 2])).mv]

\* The loop body of _records over izip(fieldnames, values) from index i;
\* mv tells whether the header names a '__mv_' column.
RECURSIVE record_of(_, _, _, _, _)
record_of(fieldnames, values, i, record, mv) ==
    IF i > Len(fieldnames) \/ i > Len(values) THEN record
    ELSE LET fieldname == fieldnames[i]
             value == values[i]
             decoded == decode_list(value)
         IN record_of(fieldnames, values, i + 1,
                IF ~mv THEN setitem(record, fieldname, StrValue(value))
                ELSE IF StartsWith(fieldname, 1, MvPrefix)
                THEN IF Len(value) > 0
                     THEN setitem(record, SubSeq(fieldname, Len(MvPrefix) + 1, Len(fieldname)),
                                  ListValue([k \in DOMAIN decoded |-> StrValue(decoded[k])]))
                     ELSE record
                ELSE IF ~HasKey(record, fieldname) THEN setitem(record, fieldname, StrValue(value))
                ELSE record,
                mv)

\* _records that keeps the single-value column of every field.
records_ignoring_mv(body) ==
    LET parsed == reader(body, 1, parse_reset, <<>>)
        rows == parsed.rows
    IN [records |-> [i \in 1..(Len(rows) - 1) |->
                        record_of(rows[1], rows[i + 1], 1, [fields |-> <<>>, values |-> <<>>], FALSE)],
        raised |-> IF parsed.error THEN "Error" ELSE None]

\* The records _records yields for one chunk body, and the csv.Error the
\* reader may raise on the way.
records(body) ==
    LET parsed == reader(body, 1, parse_reset, <<>>)
        rows == parsed.rows
        mv == rows # <<>> /\ \E j \in DOMAIN rows[1] : StartsWith(rows[1][j], 1, MvPrefix)
    IN [records |-> [i \in 1..(Len(rows) - 1) |->
                        record_of(rows[1], rows[i + 1], 1, [fields |-> <<>>, values |-> <<>>], mv)],
        raised |-> IF parsed.error THEN "Error" ELSE None]

\* ================================================================ inspector
\* self._inspector = OrderedDict(): the key 'messages' holds a list of
\* (type, text) pairs, every key 'metric.<name>' holds one metric.
EmptyInspector == [messages |-> <<>>, metrics |-> {}]

InspectorLen(inspector) ==
    (IF inspector.messages # <<>> THEN 1 ELSE 0) + Cardinality(inspector.metrics)

\* =================================================================== writer
RecordWriter(ofile, maxresultrows) ==
    [class |-> "RecordWriterV2",
     maxresultrows |-> IF maxresultrows = <<>> THEN DefaultMaxResultRows ELSE maxresultrows[1],
     ofile |-> ofile,
     fieldnames |-> <<>>,
     buffer |-> <<>>,
     finished |-> FALSE,
     inspector |-> EmptyInspector,
     chunk_count |-> 0,
     record_count |-> 0,
     total_record_count |-> 0]

\* self._record_writer = None
NoWriter == [RecordWriter(<<>>, <<>>) EXCEPT !.class = "NoneType"]

\* ensure_validity without its check: a closed writer accepts calls.
ensure_validity_unchecked(w) == None

ensure_validity(w) ==
    IF w.finished = TRUE
    THEN IF w.record_count = 0 /\ InspectorLen(w.inspector) = 0
         THEN "RuntimeError"
         ELSE "AssertionError"
    ELSE None

RecordWriter_flush(w, finished, partial) ==
    IF ~(finished = None \/ partial = None) THEN "AssertionError"
    ELSE ensure_validity(w)

RecordWriter_clear(w) ==
    [w EXCEPT !.buffer = <<>>, !.inspector = EmptyInspector, !.record_count = 0]

clear(w) == [RecordWriter_clear(w) EXCEPT !.fieldnames = <<>>]

\* The keys of a metadata dictionary that survive the None filter of
\* _write_chunk; md is a record whose absent values are "None" (flags) or
\* the empty inspector.  The key "settings" stands for the entries of
\* configuration.items(), none of which is None.
FlagKeys(md) == {k \in DOMAIN md \cap {"finished", "partial"} : md[k] # None}

MetadataKeys(md) ==
    FlagKeys(md) \cup
    (IF "settings" \in DOMAIN md /\ md.settings # <<>> THEN {"settings"} ELSE {}) \cup
    (IF "inspector" \in DOMAIN md /\ InspectorLen(md.inspector) > 0 THEN {"inspector"} ELSE {})

encode_metadata(md) == [k \in MetadataKeys(md) |-> md[k]]

\* len of the compact JSON text: "{}" for the empty object, more otherwise.
MetadataLength(encoded) == 2 + Cardinality(DOMAIN encoded)

\* self._ofile.flush(): all that was written so far leaves the process.
flush(ofile) == [i \in DOMAIN ofile |-> [ofile[i] EXCEPT !.flushed = TRUE]]

\* _write_chunk that measures the metadata before it drops the None fields.
write_chunk_measuring_early(ofile, has_metadata, md, body) ==
    LET metadata == encode_metadata(md)
        metadata_length == IF has_metadata THEN 2 + Cardinality(DOMAIN md) ELSE 0
        text == getvalue(body)
        body_length == Len(text)
    IN IF ~(metadata_length > 0 \/ body_length > 0) THEN ofile
       ELSE flush(Append(ofile, [kind |-> "chunk",
                                 start_line |-> start_line(metadata_length, body_length),
                                 metadata |-> metadata, body |-> body, text |-> text,
                                 flushed |-> FALSE]))

\* has_metadata is the truth value of the metadata argument (a non-empty
\* dictionary); body is the buffer, whose text getvalue gives.  Every
\* element of ofile is one frame: start line, metadata, the rows of the
\* body and their text, and whether a flush followed it.
write_chunk(ofile, has_metadata, md, body) ==
    LET metadata == encode_metadata(md)
        metadata_length == IF has_metadata THEN MetadataLength(metadata) ELSE 0
        text == getvalue(body)
        body_length == Len(text)
    IN IF ~(metadata_length > 0 \/ body_length > 0) THEN ofile
       ELSE flush(Append(ofile, [kind |-> "chunk",
                                 start_line |-> start_line(metadata_length, body_length),
                                 metadata |-> metadata, body |-> body, text |-> text,
                                 flushed |-> FALSE]))

RecordWriterV2_flush(w, finished, partial) ==
    LET exc == RecordWriter_flush(w, None, None) IN
    IF exc # None THEN [w |-> w, raised |-> exc]
    ELSE LET metadata == [inspector |-> w.inspector, finished |-> finished, partial |-> partial]
             w1 == IF w.record_count > 0 \/ InspectorLen(w.inspector) > 0
                   THEN clear([w EXCEPT
                            !.total_record_count = @ + w.record_count,
                            !.chunk_count = @ + 1,
                            !.ofile = write_chunk(@, TRUE, metadata, w.buffer)])
                   ELSE w
         IN [w |-> [w1 EXCEPT !.finished = (finished = "True")], raised |-> None]

\* RecordWriterV1(ofile, maxresultrows)
RecordWriterV1(ofile, maxresultrows) ==
    [RecordWriter(ofile, maxresultrows) EXCEPT !.class = "RecordWriterV1"]

\* RecordWriterV1.flush: the messages are written before the first chunk
\* only, one line each, then the text of the buffer; _clear runs before the
\* record count is added to the total.  The element of ofile holds the
\* messages written as its metadata.
RecordWriterV1_flush(w, finished, partial) ==
    LET exc == RecordWriter_flush(w, None, None) IN
    IF exc # None THEN [w |-> w, raised |-> exc]
    ELSE LET first == w.chunk_count = 0
             messages == IF first THEN w.inspector.messages ELSE <<>>
             element == [kind |-> "v1", start_line |-> <<>>,
                         metadata |-> encode_metadata([inspector |-> [messages |-> messages, metrics |-> {}]]),
                         body |-> w.buffer, text |-> getvalue(w.buffer), flushed |-> FALSE]
             cleared == RecordWriter_clear([w EXCEPT !.ofile = Append(@, element)])
             w1 == IF w.record_count > 0 \/ (first /\ w.inspector.messages # <<>>)
                   THEN [cleared EXCEPT
                            !.chunk_count = @ + 1,
                            !.total_record_count = @ + cleared.record_count]
                   ELSE w
         IN [w |-> [w1 EXCEPT !.finished = (finished = "True")], raised |-> None]

\* self.flush(finished, partial): the flush of the class of the writer.
self_flush(w, finished, partial) ==
    IF w.class = "RecordWriterV1" THEN RecordWriterV1_flush(w, finished, partial)
    ELSE RecordWriterV2_flush(w, finished, partial)

\* The strings of the model that hold a brace without its partner.
Braces == {"}"}

\* message_text.format() with no arguments: the exception it raises, None
\* when it returns.  A message text is [msg |-> its fixed words, names |->
\* the strings put into it]; a single brace in one of them is a ValueError.
format(message_text) ==
    IF \E i \in DOMAIN message_text.names : message_text.names[i] \in Braces
    THEN "ValueError" ELSE None

\* (setdefault('messages', []) runs before format raises; nothing reads the
\* inspector after that, the exception ends the process.)
write_message(w, message_type, message_text) ==
    LET exc == ensure_validity(w) IN
    IF exc # None THEN [w |-> w, raised |-> exc]
    ELSE IF format(message_text) # None THEN [w |-> w, raised |-> format(message_text)]
    ELSE [w |-> [w EXCEPT !.inspector.messages = Append(@, <<message_type, message_text>>)],
          raised |-> None]

write_metric(w, name) ==
    LET exc == ensure_validity(w) IN
    IF exc # None THEN [w |-> w, raised |-> exc]
    ELSE [w |-> [w EXCEPT !.inspector.metrics = @ \cup {name}], raised |-> None]

\* write_record that flushes only after maxresultrows is exceeded.
write_record_flush_late(w, record) ==
    LET exc == ensure_validity(w) IN
    IF exc # None THEN [w |-> w, raised |-> exc]
    ELSE LET w1 == IF w.fieldnames = <<>>
                   THEN [w EXCEPT !.buffer = Append(@, [kind |-> "header", fields |-> record.fields, serial |-> 0,
                                                         cells |-> HeaderCells(record.fields)]),
                                  !.fieldnames = record.fields]
                   ELSE w
             w2 == [w1 EXCEPT !.buffer = Append(@, [kind |-> "data", fields |-> w1.fieldnames, serial |-> record.serial,
                                                        cells |-> ValueCells(w1.fieldnames, record)]),
                              !.record_count = @ + 1]
         IN IF w2.record_count > w2.maxresultrows
            THEN self_flush(w2, None, "True")
            ELSE [w |-> w2, raised |-> None]

write_record(w, record) ==
    LET exc == ensure_validity(w) IN
    IF exc # None THEN [w |-> w, raised |-> exc]
    ELSE LET w1 == IF w.fieldnames = <<>>
                   THEN [w EXCEPT !.buffer = Append(@, [kind |-> "header", fields |-> record.fields, serial |-> 0,
                                                         cells |-> HeaderCells(record.fields)]),
                                  !.fieldnames = record.fields]
                   ELSE w
             w2 == [w1 EXCEPT !.buffer = Append(@, [kind |-> "data", fields |-> w1.fieldnames, serial |-> record.serial,
                                                        cells |-> ValueCells(w1.fieldnames, record)]),
                              !.record_count = @ + 1]
         IN IF w2.record_count >= w2.maxresultrows
            THEN self_flush(w2, None, "True")
            ELSE [w |-> w2, raised |-> None]

\* write_metadata that sends no reply when inspector messages are pending.
write_metadata_unless_messages(w, configuration) ==
    LET exc == ensure_validity(w) IN
    IF exc # None THEN [w |-> w, raised |-> exc]
    ELSE LET metadata == [settings |-> configuration, inspector |-> w.inspector]
             ofile1 == IF w.inspector.messages # <<>> THEN w.ofile
                       ELSE write_chunk(w.ofile, TRUE, metadata, <<>>)
             ofile2 == Append(ofile1, [kind |-> "newline", start_line |-> <<>>,
                                   metadata |-> encode_metadata([inspector |-> EmptyInspector]),
                                   body |-> <<>>, text |-> <<"\n">>, flushed |-> FALSE])
         IN [w |-> clear([w EXCEPT !.ofile = ofile2]), raised |-> None]

\* configuration is the sequence of (name, value) pairs of configuration.items()
write_metadata(w, configuration) ==
    LET exc == ensure_validity(w) IN
    IF exc # None THEN [w |-> w, raised |-> exc]
    ELSE LET metadata == [settings |-> configuration, inspector |-> w.inspector]
             ofile1 == write_chunk(w.ofile, TRUE, metadata, <<>>)
             ofile2 == Append(ofile1, [kind |-> "newline", start_line |-> <<>>,
                                   metadata |-> encode_metadata([inspector |-> EmptyInspector]),
                                   body |-> <<>>, text |-> <<"\n">>, flushed |-> FALSE])
         IN [w |-> clear([w EXCEPT !.ofile = ofile2]), raised |-> None]

\* ================================================================== options
\* type(command).option_definitions, in member-name order, of a command
\* class that declares two required options (as TestCommand does) next to
\* the built-in options logging_level, record and show_configuration.
\* logging_level is declared by @Option on a property, so its default is
\* None and it has no validator; its setter is logging_level below.
OptionDefinitions ==
    << [name |-> "logging_level", require |-> FALSE, default |-> None],
       [name |-> "record", require |-> FALSE, default |-> "False"],
       [name |-> "required_option_1", require |-> TRUE, default |-> None],
       [name |-> "required_option_2", require |-> TRUE, default |-> None],
       [name |-> "show_configuration", require |-> FALSE, default |-> "False"] >>

OptionNames == {OptionDefinitions[i].name : i \in DOMAIN OptionDefinitions}

Definition(name) == OptionDefinitions[CHOOSE i \in DOMAIN OptionDefinitions : OptionDefinitions[i].name = name]

\* validators.Boolean: None and the two booleans pass unchanged, a text is
\* looked up among the truth values, any other text raises ValueError.
Boolean(value) ==
    IF value \in {None, "True", "False"} THEN [value |-> value, raised |-> None]
    ELSE IF value \in {"t", "1"} THEN [value |-> "True", raised |-> None]
    ELSE IF value \in {"f", "0"} THEN [value |-> "False", raised |-> None]
    ELSE [value |-> None, raised |-> "ValueError"]

\* The names of logging._levelNames the model tells apart.
LevelNames == {"DEBUG", "WARNING", "NOTSET"}

\* command._default_logging_level: the level of the logger at construction.
default_logging_level == "NOTSET"

\* Logger.getEffectiveLevel: a logger without a level of its own has the
\* level of the root logger, WARNING.
getEffectiveLevel(level) == IF level = "NOTSET" THEN "WARNING" ELSE level

\* The setter of SearchCommand.logging_level followed by its getter: the
\* level to set, then the name of the effective level of the logger.
logging_level(value) ==
    LET level == IF value = None THEN default_logging_level ELSE value IN
    IF level \notin LevelNames THEN [value |-> None, raised |-> "ValueError"]
    ELSE [value |-> getEffectiveLevel(level), raised |-> None]

\* Option.__set__ on the command followed by Option.__get__: the setter of
\* the option applied to the validated value, and what the attribute then
\* reads.
Option_set(name, value) ==
    IF name = "logging_level" THEN logging_level(value)
    ELSE IF name \in {"record", "show_configuration"} THEN Boolean(value)
    ELSE [value |-> value, raised |-> None]

\* Option.Item.value that marks the item set before the option is assigned.
Item_value_marking_first(item, name, value) ==
    LET assigned == Option_set(name, value) IN
    IF assigned.raised # None THEN [item |-> [item EXCEPT !.is_set = TRUE], raised |-> assigned.raised]
    ELSE [item |-> [value |-> assigned.value, is_set |-> TRUE], raised |-> None]

\* Option.Item.value (the setter): the item is marked set after the
\* assignment returned.
Item_value(item, name, value) ==
    LET assigned == Option_set(name, value) IN
    IF assigned.raised # None THEN [item |-> item, raised |-> assigned.raised]
    ELSE [item |-> [value |-> assigned.value, is_set |-> TRUE], raised |-> None]

\* Option.Item.reset that leaves the mark of the item as it is.
Item_reset_keeping_mark(item, name) ==
    [value |-> Option_set(name, Definition(name).default).value, is_set |-> item.is_set]

\* Option.Item.reset: the default goes through the setter of the option.
Item_reset(item, name) ==
    [value |-> Option_set(name, Definition(name).default).value, is_set |-> FALSE]

\* Option.View.reset
reset(options) == [n \in DOMAIN options |-> Item_reset(options[n], n)]

\* Option.View.__init__: no item is set; the value of an item is what the
\* attribute of the new command reads.
View ==
    [n \in OptionNames |->
        [value |-> IF n = "logging_level" THEN getEffectiveLevel(default_logging_level) ELSE None,
         is_set |-> FALSE]]

\* command.options.reset() on the options of a new command
options_reset == reset(View)

\* Option.View.get_missing; the empty sequence stands for the result None.
get_missing(options) ==
    LET keep == {i \in DOMAIN OptionDefinitions :
                    OptionDefinitions[i].require /\ ~options[OptionDefinitions[i].name].is_set}
        missing == SelectIndices([i \in DOMAIN OptionDefinitions |-> OptionDefinitions[i].name], 1, keep)
    IN missing

\* The validator and the setter of an option accept the value.
validate(name, value) == Option_set(name, value).raised = None

\* The tokens of searchinfo.args: eq tells whether the token has an '='.
Tokens ==
    { [name |-> "field", value |-> None, eq |-> FALSE],
      [name |-> "required_option_1", value |-> "1", eq |-> TRUE],
      [name |-> "required_option_2", value |-> "1", eq |-> TRUE],
      [name |-> "bogus", value |-> "1", eq |-> TRUE],
      [name |-> "bogus", value |-> "}", eq |-> TRUE],
      [name |-> "show_configuration", value |-> "t", eq |-> TRUE],
      [name |-> "show_configuration", value |-> "x", eq |-> TRUE] }

ArgLists == UNION {[1..n -> Tokens] : n \in 0..MaxArgs}

Text(msg, names) == [msg |-> msg, names |-> names]

write_error(w, text) == write_message(w, "ERROR", text)

write_info(w, text) == write_message(w, "INFO", text)

\* The argument loop of _process_protocol_v2; st holds the writer, the
\* options, the fieldnames, error_count and the exception that ended the
\* loop, if one did.
RECURSIVE parse_arguments(_, _)
parse_arguments(args, st) ==
    IF args = <<>> \/ st.raised # None THEN st
    ELSE LET arg == Head(args)
             unrecognized == write_error(st.w, Text("Unrecognized option", <<arg.name, arg.value>>))
             illegal == write_error(st.w, Text("Illegal value", <<arg.name>>))
         IN parse_arguments(Tail(args),
            IF ~arg.eq
            THEN [st EXCEPT !.fieldnames = Append(@, arg.name)]
            ELSE IF arg.name \notin OptionNames
            THEN IF unrecognized.raised # None THEN [st EXCEPT !.raised = unrecognized.raised]
                 ELSE [st EXCEPT !.w = unrecognized.w, !.error_count = @ + 1]
            ELSE IF ~validate(arg.name, arg.value)
            THEN IF illegal.raised # None THEN [st EXCEPT !.raised = illegal.raised]
                 ELSE [st EXCEPT !.w = illegal.w, !.error_count = @ + 1]
            ELSE [st EXCEPT !.options[arg.name] = Item_value(@, arg.name, arg.value).item])

\* report_missing that names only the first missing option.
report_missing_first_only(st) ==
    LET missing == get_missing(st.options) IN
    IF missing # <<>>
    THEN [st EXCEPT
            !.w = write_error(@, Text("A value is required", <<missing[1]>>)).w,
            !.error_count = @ + 1]
    ELSE st

\* report_missing that reports the unset options without counting an error.
report_missing_uncounted(st) ==
    LET missing == get_missing(st.options) IN
    IF missing # <<>>
    THEN [st EXCEPT
            !.w = IF Len(missing) = 1
                  THEN write_error(@, Text("A value is required", missing)).w
                  ELSE write_error(@, Text("Values for these required options are missing", missing)).w]
    ELSE st

\* The report of the required options that are unset.
report_missing(st) ==
    LET missing == get_missing(st.options) IN
    IF missing # <<>>
    THEN [st EXCEPT
            !.w = IF Len(missing) = 1
                  THEN write_error(@, Text("A value is required", missing)).w
                  ELSE write_error(@, Text("Values for these required options are missing", missing)).w,
            !.error_count = @ + 1]
    ELSE st

\* ====================================================== command line parser
\* The characters of the values handed to unquote: the double quote, the
\* backslash, a letter, and the newline, which the dot of a pattern does
\* not match.
QuoteChars == {"\"", "\\", "a", "\n"}

\* re.sub(_escaped_quote_re, replace, string), from position i on.  The
\* pattern (\\.|""|[\\"]) is tried at every position from left to right;
\* replace returns the second character of a backslash pair, one quote for
\* a pair of quotes, and raises for a match of one character.
RECURSIVE sub_escaped_quote(_, _)
sub_escaped_quote(string, i) ==
    IF i > Len(string) THEN [text |-> <<>>, raised |-> None]
    ELSE LET pair == i < Len(string)
             after(n, chars) ==
                 LET rest == sub_escaped_quote(string, i + n) IN
                 IF rest.raised # None THEN rest
                 ELSE [text |-> chars \o rest.text, raised |-> None]
         IN IF string[i] = "\\" /\ pair /\ string[i + 1] # "\n" THEN after(2, <<string[i + 1]>>)
            ELSE IF string[i] = "\"" /\ pair /\ string[i + 1] = "\"" THEN after(2, <<"\"">>)
            ELSE IF string[i] \in {"\\", "\""} THEN [text |-> <<>>, raised |-> "ValueError"]
            ELSE after(1, <<string[i]>>)

\* CommandLineParser.unquote
unquote(string) ==
    IF Len(string) = 0 THEN [text |-> <<>>, raised |-> None]
    ELSE IF Len(string) = 1 THEN [text |-> string, raised |-> None]
    ELSE IF string[1] = "\""
    THEN IF string[Len(string)] # "\"" THEN [text |-> <<>>, raised |-> "ValueError"]
         ELSE sub_escaped_quote(SubSeq(string, 2, Len(string) - 1), 1)
    ELSE sub_escaped_quote(string, 1)

\* CommandLineParser.parse(command, argv) on the tokens of argv[2:]: the
\* options are reset, _arguments_re wants every option before the first
\* field name (SyntaxError), an unknown option name, a value its option
\* rejects and a missing required option are a ValueError.  The result
\* holds the options, the fieldnames, the exception raised and the strings
\* its message is made of.
RECURSIVE parse_options(_, _)
parse_options(args, st) ==
    IF args = <<>> \/ st.raised # None THEN st
    ELSE LET arg == Head(args) IN
         parse_options(Tail(args),
            IF ~arg.eq THEN st
            ELSE IF arg.name \notin OptionNames
            THEN [st EXCEPT !.raised = "ValueError", !.names = <<arg.name, arg.value>>]
            ELSE LET assigned == Item_value(st.options[arg.name], arg.name, arg.value) IN
                 IF assigned.raised # None
                 THEN [st EXCEPT !.raised = assigned.raised, !.names = <<arg.value>>]
                 ELSE [st EXCEPT !.options[arg.name] = assigned.item])

parse(args) ==
    LET st0 == [options |-> options_reset, fieldnames |-> <<>>, raised |-> None, names |-> <<>>]
        fields == {i \in DOMAIN args : ~args[i].eq}
        st1 == parse_options(args, st0)
        missing == get_missing(st1.options)
    IN IF \E i \in fields, j \in DOMAIN args : i < j /\ args[j].eq
       THEN [st0 EXCEPT !.raised = "SyntaxError"]
       ELSE IF st1.raised # None THEN st1
       ELSE IF missing # <<>> THEN [st1 EXCEPT !.raised = "ValueError", !.names = missing]
       ELSE [st1 EXCEPT !.fieldnames = SelectIndices([i \in DOMAIN args |-> args[i].name], 1, fields)]

\* ============================================================ configuration
\* The ConfigurationSetting members of ReportingCommand.ConfigurationSettings
\* in name order, each with the value and the readonly flag it is declared
\* with and with the protocols that specification_matrix lists for it.
SettingDefinitions ==
    << [name |-> "clear_required_fields", value |-> None, readonly |-> FALSE, protocols |-> {1}],
       [name |-> "maxinputs", value |-> None, readonly |-> FALSE, protocols |-> {2}],
       [name |-> "requires_preop", value |-> None, readonly |-> FALSE, protocols |-> {1, 2}],
       [name |-> "retainsevents", value |-> "False", readonly |-> FALSE, protocols |-> {1}],
       [name |-> "run_in_preview", value |-> None, readonly |-> FALSE, protocols |-> {1, 2}],
       [name |-> "streaming", value |-> "False", readonly |-> FALSE, protocols |-> {1}],
       [name |-> "streaming_preop", value |-> None, readonly |-> FALSE, protocols |-> {1, 2}],
       [name |-> "type", value |-> "reporting", readonly |-> TRUE, protocols |-> {2}] >>

\* TestCommand.ConfigurationSettings: nine settings in name order, none of
\* them set.
TestCommandSettings ==
    << [name |-> "clear_required_fields", value |-> None, protocols |-> {1}],
       [name |-> "generates_timeorder", value |-> None, protocols |-> {1}],
       [name |-> "generating", value |-> None, protocols |-> {1}],
       [name |-> "overrides_timeorder", value |-> None, protocols |-> {1}],
       [name |-> "required_fields", value |-> None, protocols |-> {1, 2}],
       [name |-> "requires_preop", value |-> None, protocols |-> {1, 2}],
       [name |-> "retainsevents", value |-> None, protocols |-> {1}],
       [name |-> "streaming", value |-> None, protocols |-> {1}],
       [name |-> "streaming_preop", value |-> None, protocols |-> {1, 2}] >>

\* ConfigurationSettingsType.specification_matrix: the type of a setting.
SettingType(name) ==
    IF name = "required_fields" THEN "list"
    ELSE IF name \in {"streaming_preop", "type"} THEN "text"
    ELSE IF name = "maxinputs" THEN "int"
    ELSE "bool"

\* The type of a Python value of the model.
TypeName(value) ==
    IF value = None THEN "NoneType"
    ELSE IF value \in {"True", "False"} THEN "bool"
    ELSE "text"

\* ConfigurationSettingsType.validate_configuration_setting: the exception
\* it raises, None when it returns the value.
validate_configuration_setting(name, value) ==
    IF TypeName(value) # SettingType(name) THEN "ValueError"
    ELSE IF name = "type" /\ value \notin {"eventing", "reporting", "streaming"} THEN "ValueError"
    ELSE None

\* The setter ConfigurationSetting.fix_up gives a setting declared in the
\* short form: the validated value becomes the value of the instance.
setting_set(configuration, i, value) ==
    LET exc == validate_configuration_setting(configuration[i].name, value) IN
    IF exc # None THEN [configuration |-> configuration, raised |-> exc]
    ELSE [configuration |-> [configuration EXCEPT ![i].value = value], raised |-> None]

\* The configuration_setting_definitions of a ConfigurationSettings class
\* that declares no ConfigurationSetting (the settings of
\* StreamingCommand.ConfigurationSettings, for one, are plain properties).
NoSettings == <<>>

\* ConfigurationSettings.iteritems, consumed: ConfigurationSetting.fix_up
\* leaves (name, setting) pairs in configuration_setting_definitions, and
\* the filter asks the first of them for is_supported_by_protocol, which a
\* pair does not have.
iteritems(configuration, version) ==
    IF configuration = <<>> THEN [items |-> <<>>, raised |-> None]
    ELSE [items |-> <<>>, raised |-> "AttributeError"]

\* The setter of StreamingCommand.ConfigurationSettings.distributed: the
\* exception it raises, None when it stores the value.
distributed_set(value) == IF value \in {None, "True", "False"} THEN None ELSE "ValueError"

\* StreamingCommand.ConfigurationSettings.render: its first step asks the
\* base class for render, which SearchCommand.ConfigurationSettings does
\* not define.
render(cmd) == [items |-> <<>>, raised |-> "AttributeError"]

\* The names of ConfigurationSettingsType.specification_matrix.
KnownSettings ==
    {"clear_required_fields", "distributed", "generates_timeorder", "generating", "maxinputs",
     "overrides_timeorder", "required_fields", "requires_preop", "retainsevents", "run_in_preview",
     "streaming", "streaming_preop", "type"}

\* The ConfigurationSetting members of the ConfigurationSettings class of a
\* command class, in name order (getmembers): those of ReportingCommand,
\* those of TestCommand, and none for the classes whose settings are plain
\* properties.
Members(class) ==
    IF class = "ReportingCommand" THEN SettingDefinitions
    ELSE IF class = "TestCommand" THEN TestCommandSettings
    ELSE <<>>

IsReadonly(member) == "readonly" \in DOMAIN member /\ member.readonly

\* ConfigurationSetting.fix_up(cls, values): the members are visited in name
\* order; values is the dictionary of the supplied settings and done the
\* names already taken out of it.  A member declared with a value or as
\* readonly has validate called with the value alone, which the three
\* parameters of validate_configuration_setting turn into a TypeError; every
\* other member gets a getter and a setter, so that fset is never None.
\* The result is the exception raised or the values set on the class.
RECURSIVE ConfigurationSetting_fix_up(_, _, _, _)
ConfigurationSetting_fix_up(members, i, values, done) ==
    IF i > Len(members)
    THEN IF DOMAIN values \ done # {}
         THEN [raised |-> "AttributeError", values |-> <<>>]
         ELSE [raised |-> None, values |-> values]
    ELSE LET member == members[i] IN
         IF member.name \notin KnownSettings THEN [raised |-> "AttributeError", values |-> <<>>]
         ELSE IF IsReadonly(member) \/ member.value # None
         THEN [raised |-> "TypeError", values |-> <<>>]
         ELSE IF member.name \notin DOMAIN values
         THEN ConfigurationSetting_fix_up(members, i + 1, values, done)
         ELSE IF validate_configuration_setting(member.name, values[member.name]) # None
         THEN [raised |-> "ValueError", values |-> <<>>]
         ELSE ConfigurationSetting_fix_up(members, i + 1, values, done \cup {member.name})

\* The processing method the fix_up of a kind looks for.
ProcessingMethod(class) ==
    IF class = "GeneratingCommand" THEN "generate"
    ELSE IF class = "ReportingCommand" THEN "reduce"
    ELSE IF class \in {"StreamingCommand", "EventingCommand"} THEN "stream"
    ELSE None

\* ConfigurationSettings.fix_up of a kind that checks nothing.
ConfigurationSettings_fix_up_unchecked(class, overridden) == None

\* ConfigurationSettings.fix_up(command) of the class: the exception it
\* raises, None when it returns.  The kinds compare the processing method
\* of the class with their own; TestCommand overrides fix_up with pass.
ConfigurationSettings_fix_up(class, overridden) ==
    IF class = "TestCommand" THEN None
    ELSE IF ProcessingMethod(class) = None THEN "NotImplementedError"
    ELSE IF ProcessingMethod(class) \notin overridden THEN "AttributeError"
    ELSE None

\* Configuration(**settings)(o) for a class o: class names the base and the
\* ConfigurationSettings of o, overridden the methods o defines.
Configuration(class, overridden, settings) ==
    LET fixed == ConfigurationSetting_fix_up(Members(class), 1, settings, {})
        checked == ConfigurationSettings_fix_up(class, overridden)
    IN IF fixed.raised # None THEN fixed
       ELSE IF checked # None THEN [raised |-> checked, values |-> <<>>]
       ELSE fixed

\* ConfigurationSettings.items(): OrderedDict(self.iteritems())
items(configuration, version) == iteritems(configuration, version)

\* The setter of ReportingCommand.phase: the method that becomes
\* self._phase, or the exception raised.
phase(value) ==
    IF value \in {None, "reduce"} THEN [method |-> "reduce", raised |-> None]
    ELSE IF value = "map" THEN [method |-> "map", raised |-> None]
    ELSE [method |-> None, raised |-> "ValueError"]

\* ReportingCommand.ConfigurationSettings.fix_up(command) past its two
\* checks: a class that does not override map gets requires_preop False
\* (the backing field of the setting) and nothing else; an overriding map
\* gets a ConfigurationSettings class of its own and requires_preop is left
\* as declared.
ReportingCommand_ConfigurationSettings_fix_up(overridden) ==
    IF "map" \notin overridden
    THEN [requires_preop |-> "False", map_settings |-> None]
    ELSE [requires_preop |-> None, map_settings |-> "StreamingCommand.ConfigurationSettings"]

\* ReportingCommand._new_configuration_settings for self._phase = method,
\* on a class that was declared and overrides the methods overridden.  The
\* fix_up of the class gives an overriding map the ConfigurationSettings of
\* StreamingCommand and ReportingCommand.map none; the reduce phase assigns
\* the text of the map invocation to streaming_preop.
ReportingCommand_new_configuration_settings(method, overridden) ==
    IF method = "map"
    THEN [configuration |-> NoSettings,
          raised |-> IF "map" \in overridden THEN None ELSE "AttributeError"]
    ELSE setting_set(SettingDefinitions,
                     CHOOSE i \in DOMAIN SettingDefinitions : SettingDefinitions[i].name = "streaming_preop",
                     "text")

\* The (name, value) pairs of the dictionaries a direct caller of the
\* writer hands to write_metadata.
SettingsItems == {<<>>, << <<"type", "reporting">> >>}

\* self._record_writer.write_metadata(self._configuration): the writer is
\* checked first, then configuration.items() is evaluated.
write_reply(w, cmd) ==
    LET rendered == items(cmd.configuration, cmd.protocol_version) IN
    IF ensure_validity(w) # None THEN [w |-> w, raised |-> ensure_validity(w)]
    ELSE IF rendered.raised # None THEN [w |-> w, raised |-> rendered.raised]
    ELSE write_metadata(w, rendered.items)

\* The message names the type of the error and ends with str(error); the
\* text of the ValueError of str.format quotes the brace it met.
report_unexpected_error(w, error) ==
    write_error(w, Text(error, IF error = "ValueError" THEN <<"}">> ELSE <<>>))

\* ============================================================== input chunks
EOF == [action |-> "EOF", finished |-> None, body |-> <<>>, searchinfo |-> None, args |-> <<>>, maxresultrows |-> <<>>]

\* The frame 'chunked 1.0,0,0': no metadata and no body.  _read_chunk is
\* applied to its text when it is the first frame of the input.
EmptyFrame ==
    [action |-> "chunked 1.0,0,0", finished |-> None, body |-> <<>>, searchinfo |-> None, args |-> <<>>,
     maxresultrows |-> <<>>]

\* The first chunk the host sends: a getinfo chunk with searchinfo.args and
\* possibly maxresultrows, or one of the chunks the reader rejects.
GetinfoChunks ==
    { [action |-> "getinfo", finished |-> None, body |-> <<>>, searchinfo |-> "ok", args |-> a, maxresultrows |-> m] :
        a \in ArgLists, m \in {<<>>, <<1>>} }
    \cup
    { [action |-> None, finished |-> None, body |-> <<>>, searchinfo |-> None, args |-> <<>>, maxresultrows |-> <<>>],
      [action |-> "getinfo", finished |-> None, body |-> <<1>>, searchinfo |-> "ok", args |-> <<>>, maxresultrows |-> <<>>],
      [action |-> "getinfo", finished |-> None, body |-> <<>>, searchinfo |-> "no dispatch_dir", args |-> <<>>, maxresultrows |-> <<>>],
      [action |-> "getinfo", finished |-> None, body |-> <<>>, searchinfo |-> "no args", args |-> <<>>, maxresultrows |-> <<>>],
      EmptyFrame }

InputFields == <<"a">>

\* A chunk body: the empty text, or a header row followed by k data rows
\* whose contents are base+1 .. base+k.
Body(k, base) ==
    <<[kind |-> "header", fields |-> InputFields, serial |-> 0]>> \o
    [i \in 1..k |-> [kind |-> "data", fields |-> InputFields, serial |-> base + i]]

Bodies(base) == {<<>>} \cup {Body(k, base) : k \in 0..MaxBody}

\* The chunks the host may send in the execute phase: execute chunks with
\* finished true or absent (absent reads as False), and a chunk with
\* another action.
ExecuteChunks(base) ==
    { [action |-> "execute", finished |-> f, body |-> b, searchinfo |-> None, args |-> <<>>, maxresultrows |-> <<>>] :
        f \in {None, "True"}, b \in Bodies(base) }
    \cup
    { [action |-> "getinfo", finished |-> None, body |-> b, searchinfo |-> None, args |-> <<>>, maxresultrows |-> <<>>] :
        b \in Bodies(base) }

\* The records csv.reader yields after the header row.
Rows(body) == [i \in 1..(Len(body) - 1) |-> Numbered(body[i + 1].fields, body[i + 1].serial)]

\* =========================================================== variables
\* record_writer  self._record_writer, with the output file it writes to
\* raised         the exception that escaped the most recent writer call
\* calls          what a direct caller of the writer has done so far: the
\*                number of calls, the number of write_record calls, whether
\*                every call before the most recent one was a write_record,
\*                and the most recent call
\* pc             the position of process() in _process_protocol_v2
\* ifile          the chunks read from the input so far, and whether
\*                end-of-stream was seen
\* exit_status    "None" while the process runs, then its exit status
\* command        the SearchCommand object
\* exec           the frame of _execute and of the _records generator
\* stream         a byte stream handed to _read_chunk by a direct caller:
\*                the frames the host wrote and the number of characters
\*                the stream lacks at its end, the text, the read position,
\*                the results of the calls so far (log) and whether the
\*                stream is still read ("open") or not ("eof", "raised")
\* codec          what a direct caller of the codec does: its input (a
\*                "value" to encode, or a "text" to decode), how far it is
\*                (step), the pair _encode_value returned, the text given
\*                to _decode_list, the list that returned and the error
\*                that was raised
\* client         what a direct caller of the options, of the configuration
\*                settings, of the Configuration decorator or of the
\*                command line parser holds (api names which), and the
\*                last call it made
VARIABLES record_writer, raised, calls, pc, ifile, exit_status, command, exec,
          stream, codec, client

vars == <<record_writer, raised, calls, pc, ifile, exit_status, command, exec, stream, codec,
          client>>

engine == <<pc, ifile, exit_status, command, exec>>

\* The state of the direct callers of the writer, the transport and the codec.
harness == <<calls, stream, codec, client>>

NoCall == [op |-> None, finished |-> None, partial |-> None]

\* The calls made so far.  batch holds the records write_record accepted
\* since the buffer was last cleared, since_flush those it accepted since
\* flush last ran; sent and sent_since_flush are their values at the moment
\* the last call emitted a chunk (emitted); messages holds the messages
\* write_message accepted.
NoCalls ==
    [count |-> 0, writes |-> 0, only_writes |-> TRUE, last |-> NoCall,
     batch |-> <<>>, since_flush |-> <<>>, emitted |-> FALSE, sent |-> <<>>, sent_since_flush |-> <<>>,
     messages |-> <<>>]

\* SearchCommand.__init__; distributed is the value of the plain property
\* of that name that the settings of a StreamingCommand have (None in the
\* class); kind is the processing callback of the class:
\* "echo" yields every record it is given (TestCommand), "any" is a
\* callback that may yield, drop, log or raise at every record.
NewCommand(kind) ==
    [kind |-> kind,
     options |-> options_reset,
     fieldnames |-> <<>>,
     configuration |-> NoSettings,
     distributed |-> None,
     metadata |-> EOF,
     protocol_version |-> 0,
     write_record |-> None,
     prepared |-> 0]

\* SearchCommand._new_configuration_settings: a new instance of the
\* ConfigurationSettings class of the command.
new_configuration_settings(cmd) == cmd.configuration

\* No stream and no value: the direct callers of the transport and of the
\* codec are idle.
NoStream == [frames |-> <<>>, cut |-> 0, data |-> <<>>, pos |-> 0, log |-> <<>>, status |-> "idle"]

NoCodec ==
    [input |-> None, step |-> "idle", value |-> NoneValue, text |-> Absent,
     encoded |-> [sv |-> Absent, mv |-> Absent], decoded |-> <<>>, error |-> None,
     record |-> [fields |-> <<>>, serial |-> 0, values |-> <<>>], read |-> <<>>]

\* No direct caller of the options, the settings, the decorator or the parser.
NoClient == [api |-> None]

NewFrame ==
    [finished |-> None, reader |-> <<>>, gen |-> "running", yielded |-> <<>>,
     late |-> FALSE, exception |-> None]

\* ------------------------------------------------ the writer used directly
\* (as tests/searchcommands/test_internals_v2.py uses it)
InitWriter ==
    /\ client = NoClient
    /\ \E m \in 1..MaxRows : record_writer = RecordWriter(<<>>, <<m>>)
    /\ calls = NoCalls
    /\ raised = None
    /\ stream = NoStream
    /\ codec = NoCodec
    /\ pc = "writer"
    /\ ifile = [read |-> <<>>, eof |-> FALSE]
    /\ exit_status = None
    /\ command = NewCommand("echo")
    /\ exec = NewFrame

Apply(call, result, written, said) ==
    /\ record_writer' = result.w
    /\ raised' = result.raised
    /\ LET accepted == IF result.raised = None THEN written ELSE <<>>
           emitted == result.w.chunk_count > record_writer.chunk_count
           cleared == emitted \/ (call.op = "write_metadata" /\ result.raised = None)
           flushed == emitted \/ call.op = "flush"
       IN calls' = [count |-> calls.count + 1,
                    writes |-> calls.writes + (IF call.op = "write_record" THEN 1 ELSE 0),
                    only_writes |-> calls.only_writes /\ calls.last.op \in {None, "write_record"},
                    last |-> call,
                    batch |-> IF cleared THEN <<>> ELSE calls.batch \o accepted,
                    since_flush |-> IF flushed THEN <<>> ELSE calls.since_flush \o accepted,
                    emitted |-> emitted,
                    sent |-> IF emitted THEN calls.batch \o accepted ELSE <<>>,
                    sent_since_flush |-> IF emitted THEN calls.since_flush \o accepted ELSE <<>>,
                    messages |-> calls.messages \o (IF result.raised = None THEN said ELSE <<>>)]
    /\ UNCHANGED <<client, engine, stream, codec>>

CallWriteRecord ==
    /\ calls.count < MaxCalls
    /\ \E f \in FieldSets :
         Apply([op |-> "write_record", finished |-> None, partial |-> None],
               write_record(record_writer, Numbered(f, calls.writes + 1)),
               <<Numbered(f, calls.writes + 1)>>, <<>>)

CallWriteMessage ==
    /\ calls.count < MaxCalls
    /\ \E t \in MessageTypes :
         Apply([op |-> "write_message", finished |-> None, partial |-> None],
               write_message(record_writer, t, Text("text", <<>>)), <<>>, << <<t, Text("text", <<>>)>> >>)

CallWriteMetric ==
    /\ calls.count < MaxCalls
    /\ \E n \in MetricNames :
         Apply([op |-> "write_metric", finished |-> None, partial |-> None],
               IF record_writer.class = "RecordWriterV2" THEN write_metric(record_writer, n)
               ELSE [w |-> record_writer, raised |-> "AttributeError"],
               <<>>, <<>>)

CallWriteMetadata ==
    /\ calls.count < MaxCalls
    /\ \E configuration \in SettingsItems :
         Apply([op |-> "write_metadata", finished |-> None, partial |-> None],
               write_metadata(record_writer, configuration), <<>>, <<>>)

CallFlush ==
    /\ calls.count < MaxCalls
    /\ \E finished \in Flags, partial \in Flags :
         /\ finished = None \/ partial = None
         /\ Apply([op |-> "flush", finished |-> finished, partial |-> partial],
                  self_flush(record_writer, finished, partial), <<>>, <<>>)

NextWriter ==
    \/ CallWriteRecord
    \/ CallWriteMessage
    \/ CallWriteMetric
    \/ CallWriteMetadata
    \/ CallFlush

SpecWriter == InitWriter /\ [][NextWriter]_vars

\* ---------------------------------------- the legacy writer used directly
\* RecordWriterV1 has neither write_metric nor write_metadata; a call of
\* write_metric is an AttributeError.
InitWriterV1 ==
    /\ client = NoClient
    /\ \E m \in 1..MaxRows : record_writer = RecordWriterV1(<<>>, <<m>>)
    /\ calls = NoCalls
    /\ raised = None
    /\ stream = NoStream
    /\ codec = NoCodec
    /\ pc = "writer"
    /\ ifile = [read |-> <<>>, eof |-> FALSE]
    /\ exit_status = None
    /\ command = NewCommand("echo")
    /\ exec = NewFrame

NextWriterV1 ==
    \/ CallWriteRecord
    \/ CallWriteMessage
    \/ CallWriteMetric
    \/ CallFlush

SpecWriterV1 == InitWriterV1 /\ [][NextWriterV1]_vars

\* ------------------------------------------- the transport used directly
InitTransport ==
    /\ client = NoClient
    /\ record_writer = RecordWriter(<<>>, <<>>)
    /\ calls = NoCalls
    /\ raised = None
    /\ \E n \in 0..MaxFrames : \E frames \in [1..n -> HostFrames] : \E cut \in 0..MaxCut :
         /\ cut <= Len(StreamText(frames))
         /\ stream = [frames |-> frames, cut |-> cut,
                      data |-> SubSeq(StreamText(frames), 1, Len(StreamText(frames)) - cut),
                      pos |-> 0, log |-> <<>>, status |-> "open"]
    /\ codec = NoCodec
    /\ pc = "transport"
    /\ ifile = [read |-> <<>>, eof |-> FALSE]
    /\ exit_status = None
    /\ command = NewCommand("echo")
    /\ exec = NewFrame

\* A caller reads the next chunk of the stream; it stops at end-of-stream
\* and at an error.
CallReadChunk ==
    /\ pc = "transport"
    /\ stream.status = "open"
    /\ LET r == read_chunk(stream.data, stream.pos) IN
       /\ stream' = [stream EXCEPT
                        !.pos = r.pos,
                        !.log = Append(@, r),
                        !.status = IF r.result = "chunk" THEN "open"
                                   ELSE IF r.result = "None" THEN "eof" ELSE "raised"]
       /\ raised' = r.error
    /\ UNCHANGED <<record_writer, calls, codec, client, engine>>

NextTransport ==
    \/ CallReadChunk

SpecTransport == InitTransport /\ [][NextTransport]_vars

\* ----------------------------------------------- the codec used directly
InitCodec ==
    /\ client = NoClient
    /\ record_writer = RecordWriter(<<>>, <<>>)
    /\ calls = NoCalls
    /\ raised = None
    /\ stream = NoStream
    /\ \/ \E value \in Scalars \cup Lists :
            codec = [NoCodec EXCEPT !.input = "value", !.step = "new", !.value = value]
       \/ \E text \in Texts(MaxText) :
            codec = [NoCodec EXCEPT !.input = "text", !.step = "encoded", !.text = Present(text)]
       \/ \E record \in Records :
            codec = [NoCodec EXCEPT !.input = "record", !.step = "new", !.record = record]
    /\ pc = "codec"
    /\ ifile = [read |-> <<>>, eof |-> FALSE]
    /\ exit_status = None
    /\ command = NewCommand("echo")
    /\ exec = NewFrame

\* sv, mv = self._encode_value(value); mv is what a reader will decode.
CallEncodeValue ==
    /\ pc = "codec"
    /\ codec.input = "value"
    /\ codec.step = "new"
    /\ LET encoded == encode_value(codec.value) IN
       codec' = [codec EXCEPT !.step = "encoded", !.encoded = encoded, !.text = encoded.mv]
    /\ UNCHANGED <<record_writer, raised, calls, stream, client, engine>>

\* self._decode_list(mv); re.findall raises TypeError when mv is None.
CallDecodeList ==
    /\ pc = "codec"
    /\ codec.step = "encoded"
    /\ IF codec.text = Absent
       THEN /\ codec' = [codec EXCEPT !.step = "decoded", !.error = "TypeError"]
            /\ raised' = "TypeError"
       ELSE /\ codec' = [codec EXCEPT !.step = "decoded", !.decoded = decode_list(codec.text[1])]
            /\ raised' = None
    /\ UNCHANGED <<record_writer, calls, stream, client, engine>>

\* writer.write_record(record) on a new writer
WriteRecord ==
    /\ pc = "codec"
    /\ codec.input = "record"
    /\ codec.step = "new"
    /\ LET result == write_record(record_writer, codec.record) IN
       /\ record_writer' = result.w
       /\ raised' = result.raised
    /\ codec' = [codec EXCEPT !.step = "written"]
    /\ UNCHANGED <<calls, stream, client, engine>>

\* writer.flush(finished, partial)
FlushRecord ==
    /\ pc = "codec"
    /\ codec.step = "written"
    /\ \E finished \in {None, "True"}, partial \in {None, "True"} :
         /\ finished = None \/ partial = None
         /\ LET result == RecordWriterV2_flush(record_writer, finished, partial) IN
            /\ record_writer' = result.w
            /\ raised' = result.raised
    /\ codec' = [codec EXCEPT !.step = "flushed"]
    /\ UNCHANGED <<calls, stream, client, engine>>

\* The record reader of the engine applied to the body of the frame the
\* flush has written.
ReadRecords ==
    /\ pc = "codec"
    /\ codec.step = "flushed"
    /\ record_writer.ofile # <<>>
    /\ LET result == records(record_writer.ofile[Len(record_writer.ofile)].text) IN
       /\ codec' = [codec EXCEPT !.step = "read", !.read = result.records, !.error = result.raised]
       /\ raised' = result.raised
    /\ UNCHANGED <<record_writer, calls, stream, client, engine>>

NextCodec ==
    \/ CallEncodeValue
    \/ CallDecodeList
    \/ WriteRecord
    \/ FlushRecord
    \/ ReadRecords

SpecCodec == InitCodec /\ [][NextCodec]_vars

\* --------------------------------------------- the options used directly
\* (as tests/searchcommands/test_decorators.py and test_builtin_options.py
\* use them)
\* The values a caller assigns: None, truth values, level names and other texts.
OptionValues == {None, "t", "f", "1", "x", "DEBUG", "NOTSET"}

\* The last call of the caller of the options: its name, the option it
\* names and, for get_missing, what it returned.
NoOptionCall == [op |-> None, name |-> None, missing |-> <<>>]

\* command = StubbedSearchCommand(); options = command.options
InitOptions ==
    /\ client = [api |-> "options", last |-> NoOptionCall, assigned |-> FALSE]
    /\ command = [NewCommand("echo") EXCEPT !.options = View]
    /\ record_writer = NoWriter
    /\ calls = NoCalls
    /\ raised = None
    /\ stream = NoStream
    /\ codec = NoCodec
    /\ pc = "options"
    /\ ifile = [read |-> <<>>, eof |-> FALSE]
    /\ exit_status = None
    /\ exec = NewFrame

\* options[name].value = value
AssignOption ==
    /\ pc = "options"
    /\ \E name \in OptionNames, value \in OptionValues :
         LET result == Item_value(command.options[name], name, value) IN
         /\ command' = [command EXCEPT !.options[name] = result.item]
         /\ raised' = result.raised
         /\ client' = [client EXCEPT !.last = [op |-> "assign", name |-> name, missing |-> <<>>],
                                     !.assigned = @ \/ result.raised = None]
    /\ UNCHANGED <<record_writer, calls, stream, codec, pc, ifile, exit_status, exec>>

\* options.reset()
ResetOptions ==
    /\ pc = "options"
    /\ command' = [command EXCEPT !.options = reset(@)]
    /\ raised' = None
    /\ client' = [client EXCEPT !.last = [NoOptionCall EXCEPT !.op = "reset"]]
    /\ UNCHANGED <<record_writer, calls, stream, codec, pc, ifile, exit_status, exec>>

\* missing = options.get_missing()
GetMissing ==
    /\ pc = "options"
    /\ raised' = None
    /\ client' = [client EXCEPT !.last = [op |-> "get_missing", name |-> None,
                                          missing |-> get_missing(command.options)]]
    /\ UNCHANGED <<record_writer, calls, stream, codec, engine>>

NextOptions ==
    \/ AssignOption
    \/ ResetOptions
    \/ GetMissing

SpecOptions == InitOptions /\ [][NextOptions]_vars

\* ------------------------------------ configuration settings used directly
\* (as tests/searchcommands/test_configuration_settings.py uses them)
\* The values a caller assigns to a setting.
SettingValues == {"True", "False", "text"}

NoSettingsCall == [op |-> None, items |-> <<>>]

\* The classes of the commands: one derived from SearchCommand whose
\* ConfigurationSettings declares nothing, TestCommand with its nine
\* ConfigurationSetting members, and one derived from StreamingCommand.
CommandClasses == {"SearchCommand", "TestCommand", "StreamingCommand"}

definitions_of(class) == IF class = "TestCommand" THEN TestCommandSettings ELSE NoSettings

\* command = TestCommand(); assigned counts the assignments made.
InitSettings ==
    /\ \E class \in CommandClasses :
         /\ command = [NewCommand("echo") EXCEPT !.configuration = definitions_of(class)]
         /\ client = [api |-> "settings", class |-> class, last |-> NoSettingsCall, assigned |-> 0]
    /\ record_writer = NoWriter
    /\ calls = NoCalls
    /\ raised = None
    /\ stream = NoStream
    /\ codec = NoCodec
    /\ pc = "settings"
    /\ ifile = [read |-> <<>>, eof |-> FALSE]
    /\ exit_status = None
    /\ exec = NewFrame

\* command._protocol_version = version
SetProtocolVersion ==
    /\ pc = "settings"
    /\ \E version \in {1, 2} : command' = [command EXCEPT !.protocol_version = version]
    /\ raised' = None
    /\ client' = [client EXCEPT !.last = [NoSettingsCall EXCEPT !.op = "version"]]
    /\ UNCHANGED <<record_writer, calls, stream, codec, pc, ifile, exit_status, exec>>

\* command.configuration.<name> = value
AssignSetting ==
    /\ pc = "settings"
    /\ client.assigned < MaxAssigned
    /\ \E i \in DOMAIN command.configuration, value \in SettingValues :
         LET result == setting_set(command.configuration, i, value) IN
         /\ command' = [command EXCEPT !.configuration = result.configuration]
         /\ raised' = result.raised
    /\ client' = [client EXCEPT !.last = [NoSettingsCall EXCEPT !.op = "assign"], !.assigned = @ + 1]
    /\ UNCHANGED <<record_writer, calls, stream, codec, pc, ifile, exit_status, exec>>

\* command.configuration.distributed = value, on a streaming command
AssignDistributed ==
    /\ pc = "settings"
    /\ client.class = "StreamingCommand"
    /\ client.assigned < MaxAssigned
    /\ \E value \in SettingValues \cup {None} :
         /\ command' = [command EXCEPT !.distributed = IF distributed_set(value) = None THEN value ELSE @]
         /\ raised' = distributed_set(value)
    /\ client' = [client EXCEPT !.last = [NoSettingsCall EXCEPT !.op = "assign"], !.assigned = @ + 1]
    /\ UNCHANGED <<record_writer, calls, stream, codec, pc, ifile, exit_status, exec>>

\* command.configuration.items()
RenderSettings ==
    /\ pc = "settings"
    /\ command.protocol_version \in {1, 2}
    /\ LET rendered == items(command.configuration, command.protocol_version) IN
       /\ raised' = rendered.raised
       /\ client' = [client EXCEPT !.last = [op |-> "items", items |-> rendered.items]]
    /\ UNCHANGED <<record_writer, calls, stream, codec, engine>>

\* command.configuration.render(), on a streaming command
CallRender ==
    /\ pc = "settings"
    /\ client.class = "StreamingCommand"
    /\ command.protocol_version \in {1, 2}
    /\ LET rendered == render(command) IN
       /\ raised' = rendered.raised
       /\ client' = [client EXCEPT !.last = [op |-> "render", items |-> rendered.items]]
    /\ UNCHANGED <<record_writer, calls, stream, codec, engine>>

\* RecordWriterV2(ofile).write_metadata(command.configuration): the
\* negotiation reply of the command.
WriteReply ==
    /\ pc = "settings"
    /\ command.protocol_version = 2
    /\ record_writer = NoWriter
    /\ LET r == write_reply(RecordWriter(<<>>, <<>>), command) IN
       /\ record_writer' = r.w
       /\ raised' = r.raised
    /\ client' = [client EXCEPT !.last = [NoSettingsCall EXCEPT !.op = "write_metadata"]]
    /\ UNCHANGED <<calls, stream, codec, engine>>

NextSettings ==
    \/ SetProtocolVersion
    \/ AssignSetting
    \/ AssignDistributed
    \/ RenderSettings
    \/ CallRender
    \/ WriteReply

SpecSettings == InitSettings /\ [][NextSettings]_vars

\* ----------------------------------------------- the Configuration decorator
\* (as tests/searchcommands/test_decorators.py applies it)
\* The classes a declaration derives from.
BaseClasses ==
    {"SearchCommand", "TestCommand", "StreamingCommand", "GeneratingCommand", "EventingCommand",
     "ReportingCommand"}

SuppliedNames == {"requires_preop", "streaming_preop", "type", "distributed", "bogus"}

SuppliedValues == {"True", "text", "reporting"}

\* The dictionaries of settings given to Configuration.
SuppliedSettings ==
    UNION {[names -> SuppliedValues] : names \in {n \in SUBSET SuppliedNames : Cardinality(n) <= MaxSupplied}}

\* The methods a class body may define.
Methods == {"generate", "stream", "reduce"}

\* A class statement under @Configuration(**settings) that has not run yet.
InitDeclaration ==
    /\ \E class \in BaseClasses, overridden \in SUBSET Methods, settings \in SuppliedSettings :
         client = [api |-> "declaration", class |-> class, overridden |-> overridden,
                   settings |-> settings, declared |-> FALSE, values |-> <<>>]
    /\ command = NewCommand("echo")
    /\ record_writer = NoWriter
    /\ calls = NoCalls
    /\ raised = None
    /\ stream = NoStream
    /\ codec = NoCodec
    /\ pc = "declaration"
    /\ ifile = [read |-> <<>>, eof |-> FALSE]
    /\ exit_status = None
    /\ exec = NewFrame

\* The class statement runs: the decorator is applied to the new class.
Declare ==
    /\ pc = "declaration"
    /\ ~client.declared
    /\ LET result == Configuration(client.class, client.overridden, client.settings) IN
       /\ raised' = result.raised
       /\ client' = [client EXCEPT !.declared = TRUE, !.values = result.values]
    /\ UNCHANGED <<record_writer, calls, stream, codec, engine>>

NextDeclaration == Declare

SpecDeclaration == InitDeclaration /\ [][NextDeclaration]_vars

\* ------------------------------------------------- a reporting command script
\* (a module that declares a class derived from ReportingCommand and hands
\* it to dispatch, as the sum command of the searchcommands_app does)
\* The values of the phase option on the command line; None when the
\* option is not supplied.
PhaseValues == {None, "map", "reduce", "x"}

\* The methods the class body may define.
ReportingMethods == {"map", "reduce"}

\* The script has not run yet.  decorated tells whether the class statement
\* is under @Configuration(**settings).
InitReporting ==
    /\ \E decorated \in BOOLEAN, overridden \in SUBSET ReportingMethods, value \in PhaseValues,
          settings \in SuppliedSettings :
         /\ ~decorated => settings = <<>>
         /\ client = [api |-> "reporting", decorated |-> decorated, overridden |-> overridden,
                      settings |-> settings, phase_arg |-> value, step |-> "class",
                      illegal |-> FALSE, reply |-> <<>>, ran |-> None, requires_preop |-> None]
    /\ command = NewCommand("echo")
    /\ record_writer = NoWriter
    /\ calls = NoCalls
    /\ raised = None
    /\ stream = NoStream
    /\ codec = NoCodec
    /\ pc = "reporting"
    /\ ifile = [read |-> <<>>, eof |-> FALSE]
    /\ exit_status = None
    /\ exec = NewFrame

\* The class statement runs; an exception of the decorator ends the script.
DeclareReporting ==
    /\ pc = "reporting"
    /\ client.step = "class"
    /\ LET result == IF client.decorated
                     THEN Configuration("ReportingCommand", client.overridden, client.settings)
                     ELSE [raised |-> None, values |-> <<>>]
       IN /\ raised' = result.raised
          /\ client' = [client EXCEPT
                          !.step = IF result.raised = None THEN "declared" ELSE "done",
                          !.requires_preop =
                              IF client.decorated /\ result.raised = None
                              THEN ReportingCommand_ConfigurationSettings_fix_up(client.overridden).requires_preop
                              ELSE None]
    /\ exit_status' = IF raised' = None THEN exit_status ELSE "1"
    /\ UNCHANGED <<record_writer, calls, stream, codec, pc, ifile, command, exec>>

\* dispatch(command_class): the command is constructed and process() runs
\* under protocol 2.  A class that was not decorated has no
\* option_definitions, which SearchCommand.__init__ reads.  Otherwise the
\* phase option is assigned (an illegal value is reported and counted), the
\* settings of the phase are created, an error count above zero ends the
\* process after the reply, and else the reply is sent and _execute runs
\* self._phase on the records.  reply is the optional list of settings
\* sent, ran the method handed to _execute.
Dispatch ==
    /\ pc = "reporting"
    /\ client.step = "declared"
    /\ LET assigned == phase(client.phase_arg)
           method == IF assigned.raised = None THEN assigned.method ELSE "reduce"
           settings == ReportingCommand_new_configuration_settings(method, client.overridden)
           rendered == items(settings.configuration, 2)
           failed == IF ~client.decorated THEN "AttributeError"
                     ELSE IF settings.raised # None THEN settings.raised
                     ELSE rendered.raised
       IN /\ raised' = failed
          /\ client' = [client EXCEPT
                          !.step = "done",
                          !.illegal = client.decorated /\ assigned.raised # None,
                          !.reply = IF failed = None THEN <<rendered.items>> ELSE <<>>,
                          !.ran = IF failed = None /\ assigned.raised = None THEN method ELSE None]
          /\ exit_status' = IF failed = None /\ assigned.raised = None THEN "0" ELSE "1"
    /\ UNCHANGED <<record_writer, calls, stream, codec, pc, ifile, command, exec>>

NextReporting ==
    \/ DeclareReporting
    \/ Dispatch

SpecReporting == InitReporting /\ [][NextReporting]_vars

\* ------------------------------------------------ the parser used directly
\* (as tests/searchcommands/test_internals_v1.py calls unquote)
\* parser = CommandLineParser(); the caller holds a value to unquote.
InitParser ==
    /\ \E string \in UNION {[1..n -> QuoteChars] : n \in 0..MaxQuoted} :
         client = [api |-> "parser", string |-> string, called |-> FALSE, text |-> <<>>]
    /\ command = NewCommand("echo")
    /\ record_writer = NoWriter
    /\ calls = NoCalls
    /\ raised = None
    /\ stream = NoStream
    /\ codec = NoCodec
    /\ pc = "parser"
    /\ ifile = [read |-> <<>>, eof |-> FALSE]
    /\ exit_status = None
    /\ exec = NewFrame

\* parser.unquote(string)
Unquote ==
    /\ pc = "parser"
    /\ ~client.called
    /\ LET result == unquote(client.string) IN
       /\ raised' = result.raised
       /\ client' = [client EXCEPT !.called = TRUE, !.text = result.text]
    /\ UNCHANGED <<record_writer, calls, stream, codec, engine>>

NextParser == Unquote

SpecParser == InitParser /\ [][NextParser]_vars

\* ------------------------------------------- the two decoders side by side
\* (as the scripts _decode_list_1_performance.py and
\* _decode_list_3_performance.py call them on one text)
InitDecoders ==
    /\ \E mv \in Texts(MaxText) :
         client = [api |-> "decoders", mv |-> mv, called |-> FALSE,
                   scanned |-> [result |-> None, list |-> <<>>], matched |-> <<>>]
    /\ command = NewCommand("echo")
    /\ record_writer = NoWriter
    /\ calls = NoCalls
    /\ raised = None
    /\ stream = NoStream
    /\ codec = NoCodec
    /\ pc = "decoders"
    /\ ifile = [read |-> <<>>, eof |-> FALSE]
    /\ exit_status = None
    /\ exec = NewFrame

\* _decode_list(mv) of the byte scanner and of the regex-based decoder
CallDecoders ==
    /\ pc = "decoders"
    /\ ~client.called
    /\ client' = [client EXCEPT !.called = TRUE,
                                !.scanned = decode_list_scanner(client.mv),
                                !.matched = decode_list(client.mv)]
    /\ UNCHANGED <<record_writer, raised, calls, stream, codec, engine>>

NextDecoders == CallDecoders

SpecDecoders == InitDecoders /\ [][NextDecoders]_vars

\* ------------------------------------------------- process() under protocol 1
\* (process(argv, ifile, ofile) with len(argv) > 1, on an input that holds
\* an empty header and nothing else, as tests/searchcommands/
\* test_search_command.py calls it)
LegacyPhases == {"__GETINFO__", "__EXECUTE__", "not__GETINFO__or__EXECUTE__"}

\* The tokens of argv[2:].
LegacyTokens == {t \in Tokens : t.name # "show_configuration"}

\* The handlers of _process_protocol_v1 for an exception other than
\* SystemExit: _report_unexpected_error writes the error with
\* self.write_error, then self.flush() and exit(1).  text is the message of
\* the error.  An exception raised on the way leaves process(); escaped is
\* the exception that leaves it.
legacy_handler(w, text) ==
    IF w.class = "NoneType" THEN [w |-> w, escaped |-> "AttributeError"]
    ELSE LET reported == write_error(w, text)
             flushed == self_flush(reported.w, None, "True")
         IN IF reported.raised # None THEN [w |-> w, escaped |-> reported.raised]
            ELSE IF flushed.raised # None THEN [w |-> reported.w, escaped |-> flushed.raised]
            ELSE [w |-> flushed.w, escaped |-> "SystemExit"]

InitLegacy ==
    /\ \E phase_arg \in LegacyPhases, args \in UNION {[1..n -> LegacyTokens] : n \in 0..MaxArgs},
          settings \in {NoSettings, TestCommandSettings} :
         /\ client = [api |-> "legacy", argv1 |-> phase_arg, args |-> args, escaped |-> None]
         /\ command = [NewCommand("echo") EXCEPT !.configuration = settings]
    /\ record_writer = NoWriter
    /\ calls = NoCalls
    /\ raised = None
    /\ stream = NoStream
    /\ codec = NoCodec
    /\ pc = "legacy"
    /\ ifile = [read |-> <<>>, eof |-> FALSE]
    /\ exit_status = None
    /\ exec = NewFrame

\* An exception leaves process(): SystemExit carries the status 1.
Leave(handled) ==
    /\ record_writer' = handled.w
    /\ raised' = handled.escaped
    /\ client' = [client EXCEPT !.escaped = handled.escaped]
    /\ exit_status' = IF handled.escaped = "SystemExit" THEN "1" ELSE exit_status
    /\ pc' = "exited"

\* _process_protocol_v1 up to the end of _prepare_protocol_v1; an argv[1]
\* that names no phase raises RuntimeError before a writer exists.
LegacyPrepare ==
    /\ pc = "legacy"
    /\ IF client.argv1 \notin {"__GETINFO__", "__EXECUTE__"}
       THEN /\ Leave(legacy_handler(record_writer, Text("RuntimeError: static configuration is unsupported", <<>>)))
            /\ UNCHANGED command
       ELSE LET w == RecordWriterV1(record_writer.ofile, <<>>)
                parsed == parse(client.args)
            IN IF parsed.raised # None
               THEN /\ Leave(legacy_handler(w, Text(parsed.raised, parsed.names)))
                    /\ command' = [command EXCEPT !.protocol_version = 1, !.options = parsed.options]
               ELSE /\ record_writer' = w
                    /\ command' = [command EXCEPT !.protocol_version = 1, !.options = parsed.options,
                                                  !.fieldnames = parsed.fieldnames, !.prepared = @ + 1]
                    /\ pc' = "legacy_prepared"
                    /\ UNCHANGED <<raised, client, exit_status>>
    /\ UNCHANGED <<calls, stream, codec, ifile, exec>>

\* The __GETINFO__ branch after the preparation: the settings are written
\* as one record and the writer is finished.
LegacyGetinfo ==
    /\ pc = "legacy_prepared"
    /\ client.argv1 = "__GETINFO__"
    /\ LET rendered == items(command.configuration, 1)
           written == write_record(record_writer, [fields |-> <<>>, serial |-> 0, values |-> <<>>])
           finished == self_flush(written.w, "True", None)
       IN IF rendered.raised # None
          THEN Leave(legacy_handler(record_writer, Text(rendered.raised, <<>>)))
          ELSE IF written.raised # None
          THEN Leave(legacy_handler(written.w, Text(written.raised, <<>>)))
          ELSE IF finished.raised # None
          THEN Leave(legacy_handler(finished.w, Text(finished.raised, <<>>)))
          ELSE /\ record_writer' = finished.w
               /\ pc' = "returned"
               /\ UNCHANGED <<raised, client, exit_status>>
    /\ UNCHANGED <<calls, stream, codec, ifile, command, exec>>

\* The __EXECUTE__ branch after the preparation, on an input without
\* chunks: _records returns at once, no record is written and the writer is
\* finished.
LegacyExecute ==
    /\ pc = "legacy_prepared"
    /\ client.argv1 = "__EXECUTE__"
    /\ LET finished == self_flush(record_writer, "True", None) IN
       IF finished.raised # None
       THEN Leave(legacy_handler(finished.w, Text(finished.raised, <<>>)))
       ELSE /\ record_writer' = finished.w
            /\ pc' = "returned"
            /\ UNCHANGED <<raised, client, exit_status>>
    /\ ifile' = [ifile EXCEPT !.eof = TRUE]
    /\ UNCHANGED <<calls, stream, codec, command, exec>>

NextLegacy ==
    \/ LegacyPrepare
    \/ LegacyGetinfo
    \/ LegacyExecute

SpecLegacy == InitLegacy /\ [][NextLegacy]_vars

\* ------------------------------------------------- process() under protocol 2
Init ==
    /\ client = NoClient
    /\ record_writer = NoWriter
    /\ calls = NoCalls
    /\ raised = None
    /\ stream = NoStream
    /\ codec = NoCodec
    /\ pc = "getinfo"
    /\ ifile = [read |-> <<>>, eof |-> FALSE]
    /\ exit_status = None
    /\ \E kind \in {"echo", "any"}, settings \in {NoSettings, TestCommandSettings} :
         command = [NewCommand(kind) EXCEPT !.configuration = settings]
    /\ exec = NewFrame

Exit(status) ==
    /\ exit_status' = status
    /\ pc' = "exited"

\* getinfo_error that accepts a first chunk with data.
getinfo_error_accepting_data(c) ==
    IF c = EOF THEN "TypeError"
    ELSE IF c = EmptyFrame THEN read_chunk(start_line(0, 0), 0).error
    ELSE IF c.action # "getinfo" THEN "RuntimeError: Expected getinfo action"
    ELSE IF c.searchinfo = "no dispatch_dir" THEN "RuntimeError: dispatch_dir is undefined"
    ELSE None

\* What is wrong with the first chunk, in the order the code checks it.
getinfo_error(c) ==
    IF c = EOF THEN "TypeError"
    ELSE IF c = EmptyFrame THEN read_chunk(start_line(0, 0), 0).error
    ELSE IF c.action # "getinfo" THEN "RuntimeError: Expected getinfo action"
    ELSE IF Len(c.body) > 0 THEN "RuntimeError: Did not expect data for getinfo action"
    ELSE IF c.searchinfo = "no dispatch_dir" THEN "RuntimeError: dispatch_dir is undefined"
    ELSE None

\* Read search command metadata from splunkd
ReadGetinfo ==
    /\ pc = "getinfo"
    /\ \E c \in GetinfoChunks \cup {EOF} :
         /\ ifile' = IF c = EOF THEN [ifile EXCEPT !.eof = TRUE]
                     ELSE [ifile EXCEPT !.read = Append(@, c)]
         /\ IF getinfo_error(c) # None
            THEN LET w0 == RecordWriter(record_writer.ofile, <<>>)
                     w1 == report_unexpected_error(w0, getinfo_error(c)).w
                     r == RecordWriterV2_flush(w1, "True", None)
                 IN /\ record_writer' = r.w
                    /\ raised' = r.raised
                    /\ command' = [command EXCEPT !.protocol_version = 2]
                    /\ exec' = [exec EXCEPT !.exception = getinfo_error(c)]
                    /\ Exit("1")
            ELSE /\ command' = [command EXCEPT !.metadata = c, !.protocol_version = 2]
                 /\ pc' = "parse"
                 /\ UNCHANGED <<record_writer, raised, exit_status, exec>>
    /\ UNCHANGED harness

\* The argument parsing of _process_protocol_v2, up to the check of
\* error_count.
ParseArguments ==
    /\ pc = "parse"
    /\ LET w0 == RecordWriter(record_writer.ofile, command.metadata.maxresultrows)
           st0 == [w |-> w0, options |-> options_reset, fieldnames |-> <<>>, error_count |-> 0,
                   raised |-> None]
       IN IF command.metadata.searchinfo = "no args"
          THEN /\ record_writer' = w0
               /\ command' = [command EXCEPT !.options = st0.options, !.fieldnames = st0.fieldnames]
               /\ exec' = [exec EXCEPT !.exception = "AttributeError"]
               /\ pc' = "reply"
          ELSE LET parsed == parse_arguments(command.metadata.args, st0)
                   st == IF parsed.raised # None THEN parsed ELSE report_missing(parsed)
               IN
               /\ record_writer' = st.w
               /\ command' = [command EXCEPT !.options = st.options, !.fieldnames = st.fieldnames,
                                             !.configuration = new_configuration_settings(command)]
               /\ exec' = [exec EXCEPT !.exception = IF st.raised # None THEN st.raised
                                                     ELSE IF st.error_count > 0 THEN "SystemExit"
                                                     ELSE None]
               /\ pc' = IF st.raised # None \/ st.error_count > 0 THEN "reply" ELSE "prepare"
    /\ UNCHANGED <<raised, harness, ifile, exit_status>>

\* self.prepare() and what follows it up to the reply; prepare is the
\* hook of the command class and may raise.
Prepare ==
    /\ pc = "prepare"
    /\ \E outcome \in {"return", "raise"} :
         /\ command' = [command EXCEPT !.prepared = @ + 1]
         /\ IF outcome = "raise"
            THEN /\ exec' = [exec EXCEPT !.exception = "Exception in prepare"]
                 /\ UNCHANGED record_writer
            ELSE /\ record_writer' =
                        IF command.options["show_configuration"].value = "True"
                        THEN write_info(record_writer, Text("command configuration settings", <<>>)).w
                        ELSE record_writer
                 /\ UNCHANGED exec
    /\ pc' = "reply"
    /\ UNCHANGED <<raised, harness, ifile, exit_status>>

\* The bare except of the negotiation block: the error is reported, the
\* reply is written and the process exits; an exception raised on the way
\* leaves the handler and ends the process.
reply_after_error(w, cmd, error) ==
    LET reported == report_unexpected_error(w, error)
        r == write_reply(reported.w, cmd)
    IN IF reported.raised # None THEN [w |-> w, raised |-> reported.raised]
       ELSE r


\* The write of the negotiation reply: at the end of the try block, in the
\* handler of SystemExit or in the handler of every other exception.
Reply ==
    /\ pc = "reply"
    /\ IF exec.exception = None
       THEN LET r == write_reply(record_writer, command)
                handled == reply_after_error(record_writer, command, r.raised)
            IN IF r.raised = None
               THEN /\ record_writer' = r.w
                    /\ raised' = None
                    /\ pc' = "execute"
                    /\ UNCHANGED exit_status
               ELSE \* the bare except of the block handles what write_metadata raised
                    /\ record_writer' = handled.w
                    /\ raised' = handled.raised
                    /\ Exit("1")
       ELSE IF exec.exception = "SystemExit"
       THEN LET r == write_reply(record_writer, command) IN
            /\ record_writer' = r.w
            /\ raised' = r.raised
            /\ Exit("1")
       ELSE LET handled == reply_after_error(record_writer, command, exec.exception) IN
            /\ record_writer' = handled.w
            /\ raised' = handled.raised
            /\ Exit("1")
    /\ UNCHANGED <<harness, ifile, command, exec>>

\* ------------------------------------------------------------- _execute
\* The number of data rows read so far.
RowsRead == SeqSum([i \in DOMAIN ifile.read |-> IF Len(ifile.read[i].body) > 1 /\ i > 1 THEN Len(ifile.read[i].body) - 1 ELSE 0])

\* _records: the loop condition is false, the generator returns.
RecordsReturn ==
    /\ pc = "execute"
    /\ exec.gen = "running"
    /\ exec.reader = <<>>
    /\ exec.finished = "True"
    /\ exec' = [exec EXCEPT !.gen = "returned"]
    /\ UNCHANGED <<record_writer, raised, harness, pc, ifile, exit_status, command>>

\* _records: one iteration of the loop up to the first record of the chunk.
ReadChunk ==
    /\ pc = "execute"
    /\ exec.gen = "running"
    /\ exec.reader = <<>>
    /\ exec.finished # "True"
    /\ \E c \in ExecuteChunks(RowsRead) \cup {EOF} :
         /\ Len(ifile.read) > MaxChunks => c = EOF
         /\ IF c = EOF
            THEN /\ ifile' = [ifile EXCEPT !.eof = TRUE]
                 /\ exec' = [exec EXCEPT !.gen = "returned"]
                 /\ pc' = pc
            ELSE /\ ifile' = [ifile EXCEPT !.read = Append(@, c)]
                 /\ IF c.action # "execute"
                    THEN /\ exec' = [exec EXCEPT !.exception = "RuntimeError: Expected execute action"]
                         /\ pc' = "except"
                    ELSE /\ exec' = [exec EXCEPT
                                !.finished = IF c.finished = None THEN "False" ELSE c.finished,
                                !.gen = IF c.body = <<>> THEN "returned" ELSE "running",
                                !.reader = IF c.body = <<>> THEN <<>> ELSE Rows(c.body)]
                         /\ pc' = pc
    /\ UNCHANGED <<record_writer, raised, harness, exit_status, command>>

\* write_record(record) in the loop of _execute, where write_record is
\* self._write_record.
Yield(record, frame) ==
    IF command.write_record = None
    THEN /\ exec' = [frame EXCEPT !.yielded = Append(@, record), !.exception = "TypeError"]
         /\ pc' = "except"
         /\ UNCHANGED <<record_writer, raised>>
    ELSE LET r == write_record(record_writer, record) IN
         /\ record_writer' = r.w
         /\ raised' = r.raised
         /\ exec' = [frame EXCEPT !.yielded = Append(@, record), !.exception = r.raised]
         /\ pc' = IF r.raised # None THEN "except" ELSE pc

\* The callback takes the next record and yields one.
CallbackYield ==
    /\ pc = "execute"
    /\ exec.reader # <<>>
    /\ Yield(Head(exec.reader), [exec EXCEPT !.reader = Tail(@)])
    /\ UNCHANGED <<harness, ifile, exit_status, command>>

\* The callback takes the next record and yields nothing for it.
CallbackSkip ==
    /\ pc = "execute"
    /\ command.kind = "any"
    /\ exec.reader # <<>>
    /\ exec' = [exec EXCEPT !.reader = Tail(@)]
    /\ UNCHANGED <<record_writer, raised, harness, pc, ifile, exit_status, command>>

\* The callback takes the next record and calls write_info.
CallbackLog ==
    /\ pc = "execute"
    /\ command.kind = "any"
    /\ exec.reader # <<>>
    /\ LET r == write_info(record_writer, Text("text", <<>>)) IN
         /\ record_writer' = r.w
         /\ raised' = r.raised
    /\ exec' = [exec EXCEPT !.reader = Tail(@)]
    /\ UNCHANGED <<harness, pc, ifile, exit_status, command>>

\* The callback takes the next record and raises.
CallbackRaise ==
    /\ pc = "execute"
    /\ command.kind = "any"
    /\ exec.reader # <<>>
    /\ exec' = [exec EXCEPT !.reader = Tail(@), !.exception = "RuntimeError: Testing"]
    /\ pc' = "except"
    /\ UNCHANGED <<record_writer, raised, harness, ifile, exit_status, command>>

\* The callback yields a record of its own once its input is exhausted
\* (a reduce).
CallbackYieldLate ==
    /\ pc = "execute"
    /\ command.kind = "any"
    /\ exec.gen = "returned"
    /\ ~exec.late
    /\ Yield(Numbered(InputFields, RowsRead + 1), [exec EXCEPT !.late = TRUE])
    /\ UNCHANGED <<harness, ifile, exit_status, command>>

\* The callback returns: self.finish() and the return of process().
Finish ==
    /\ pc = "execute"
    /\ exec.gen = "returned"
    /\ LET r == RecordWriterV2_flush(record_writer, "True", None) IN
       /\ record_writer' = r.w
       /\ raised' = r.raised
       /\ IF r.raised # None
          THEN /\ exec' = [exec EXCEPT !.exception = r.raised]
               /\ pc' = "except"
               /\ UNCHANGED exit_status
          ELSE /\ Exit("0")
               /\ UNCHANGED exec
    /\ UNCHANGED <<harness, ifile, command>>

\* The handler of an exception that escapes _execute.
HandleException ==
    /\ pc = "except"
    /\ LET w1 == report_unexpected_error(record_writer, exec.exception).w
           r == RecordWriterV2_flush(w1, None, "True")
       IN /\ record_writer' = r.w
          /\ raised' = r.raised
    /\ Exit("1")
    /\ UNCHANGED <<harness, ifile, command, exec>>

Next ==
    \/ ReadGetinfo
    \/ ParseArguments
    \/ Prepare
    \/ Reply
    \/ RecordsReturn
    \/ ReadChunk
    \/ CallbackYield
    \/ CallbackSkip
    \/ CallbackLog
    \/ CallbackRaise
    \/ CallbackYieldLate
    \/ Finish
    \/ HandleException

Spec == Init /\ [][Next]_vars

\* process() is sequential code: whenever it has a next step it takes it.
\* The host sends finitely many chunks and the callback yields finitely
\* many records, which the bounds of ReadChunk and of the callbacks ensure.
SpecTermination == Init /\ [][Next]_vars /\ WF_vars(Next)

\* ==================================================================== claims
Chunks(ofile) == SelectSeq(ofile, LAMBDA x : x.kind = "chunk")

\* The frames write_metadata wrote: the line feed it adds follows them.
ReplyIndices(ofile) ==
    {i \in DOMAIN ofile : ofile[i].kind = "chunk" /\ i < Len(ofile) /\ ofile[i + 1].kind = "newline"}

ReplyChunks(ofile) == SelectIndices(ofile, 1, ReplyIndices(ofile))

OutputChunks(ofile) == SelectIndices(ofile, 1, {i \in DOMAIN ofile : ofile[i].kind = "chunk"} \ ReplyIndices(ofile))

DataRows(body) == SelectSeq(body, LAMBDA r : r.kind = "data")

Serials(rows) == [i \in DOMAIN rows |-> rows[i].serial]

RECURSIVE AllRows(_)
AllRows(chunks) == IF chunks = <<>> THEN <<>> ELSE DataRows(Head(chunks).body) \o AllRows(Tail(chunks))

\* The rows of a body without the cells written for them.
RowsOf(body) == [i \in DOMAIN body |-> [kind |-> body[i].kind, fields |-> body[i].fields, serial |-> body[i].serial]]

FlagOf(chunk, flag) == IF flag \in DOMAIN chunk.metadata THEN chunk.metadata[flag] ELSE None

FlushFinished == [op |-> "flush", finished |-> "True", partial |-> None]

\* ----------------------------------------------------------------------- C1
\* C1: n >= 1 records written with write_record to a writer with
\* maxresultrows m >= 1, n not a multiple of m, followed by
\* flush(finished=True), give exactly floor(n/m) chunks flagged partial=true
\* with m records each, in the order written, and then exactly one chunk
\* flagged finished=true with the remaining n mod m records.
C1_PartialChunksThenFinal ==
    LET n == calls.writes
        m == record_writer.maxresultrows
        out == Chunks(record_writer.ofile)
        q == n \div m
    IN (pc = "writer" /\ calls.only_writes /\ calls.last = FlushFinished /\ n >= 1 /\ n % m # 0)
       => /\ Len(out) = q + 1
          /\ \A i \in 1..q :
                /\ FlagOf(out[i], "partial") = "True"
                /\ FlagOf(out[i], "finished") = None
                /\ Serials(DataRows(out[i].body)) = [j \in 1..m |-> (i - 1) * m + j]
          /\ FlagOf(out[q + 1], "finished") = "True"
          /\ FlagOf(out[q + 1], "partial") = None
          /\ Serials(DataRows(out[q + 1].body)) = [j \in 1..(n % m) |-> q * m + j]

\* Three records, maxresultrows 2, then flush(finished=True): one partial
\* chunk of two records and the final chunk of one.
C1_Witness ==
    /\ pc = "writer"
    /\ calls.only_writes
    /\ calls.last = FlushFinished
    /\ calls.writes = 3
    /\ record_writer.maxresultrows = 2
    /\ Len(Chunks(record_writer.ofile)) = 2

Written(ofile) ==
    [i \in DOMAIN ofile |-> [kind |-> ofile[i].kind, metadata |-> ofile[i].metadata, body |-> ofile[i].body]]

\* C3: flush(finished, partial) on an open writer writes nothing only when
\* no records and no inspector entries are buffered and neither flag is
\* set; in every other case it emits exactly one chunk with the inspector,
\* the given flags and the buffered rows, and leaves the buffer and the
\* inspector empty and the record counter 0.
C3_FlushEmitsUnlessIdle ==
    [][(pc = "writer" /\ ~record_writer.finished /\ calls'.count = calls.count + 1 /\ calls'.last.op = "flush")
        => LET finished == calls'.last.finished
               partial == calls'.last.partial
               idle == /\ record_writer.record_count = 0
                       /\ InspectorLen(record_writer.inspector) = 0
                       /\ finished # "True"
                       /\ partial # "True"
           IN IF idle
              THEN record_writer'.ofile = record_writer.ofile
              ELSE /\ Written(record_writer'.ofile) =
                        Append(Written(record_writer.ofile),
                               [kind |-> "chunk",
                                metadata |-> encode_metadata([inspector |-> record_writer.inspector,
                                                              finished |-> finished, partial |-> partial]),
                                body |-> record_writer.buffer])
                   /\ record_writer'.buffer = <<>>
                   /\ record_writer'.inspector = EmptyInspector
                   /\ record_writer'.record_count = 0]_vars

\* ----------------------------------------------------------------------- C4
Negotiating == command.metadata # EOF

\* The settings a frame carries.
SettingsOf(chunk) == IF "settings" \in DOMAIN chunk.metadata THEN chunk.metadata.settings ELSE <<>>

\* The (name, value) pairs, in name order, of the settings that support the
\* protocol version and whose value is not None.
Applicable(configuration, version) ==
    LET keep == {i \in DOMAIN configuration :
                    version \in configuration[i].protocols /\ configuration[i].value # None}
    IN SelectIndices([i \in DOMAIN configuration |-> <<configuration[i].name, configuration[i].value>>], 1, keep)

\* C4: after a valid getinfo chunk at most one negotiation reply is ever
\* written; on every path (options valid or not, prepare() raising or not)
\* the reply is in the output, with an empty body and the rendered
\* settings as metadata, whenever the process has read anything further
\* from the input or has exited.
C4_ExactlyOneReply ==
    Negotiating =>
        LET replies == ReplyChunks(record_writer.ofile) IN
        /\ Len(replies) <= 1
        /\ (Len(ifile.read) > 1 \/ ifile.eof \/ exit_status # None \/ pc \in {"execute", "except", "exited"})
            => /\ Len(replies) = 1
               /\ replies[1].body = <<>>
               /\ SettingsOf(replies[1]) = Applicable(command.configuration, 2)
               /\ record_writer.ofile[1] = replies[1]

\* prepare() raised and the process exited after its one reply.
C4_Witness ==
    /\ Negotiating
    /\ pc = "exited"
    /\ exec.exception = "Exception in prepare"
    /\ Len(ReplyChunks(record_writer.ofile)) = 1

\* ----------------------------------------------------------------------- C5
RequiredUnset ==
    {OptionDefinitions[i].name : i \in {k \in DOMAIN OptionDefinitions :
        OptionDefinitions[k].require /\ ~command.options[OptionDefinitions[k].name].is_set}}

MissingReports(chunk) ==
    IF "inspector" \notin DOMAIN chunk.metadata THEN {}
    ELSE LET messages == chunk.metadata.inspector.messages IN
         {i \in DOMAIN messages :
            /\ messages[i][1] = "ERROR"
            /\ messages[i][2].msg \in {"A value is required", "Values for these required options are missing"}
            /\ {messages[i][2].names[j] : j \in DOMAIN messages[i][2].names} = RequiredUnset
            /\ Len(messages[i][2].names) = Cardinality(RequiredUnset)}

\* C5: when N >= 1 required options are unset after all the arguments were
\* parsed (the loop over them was not ended by an exception), prepare() is not called, no execute chunk is read, and the
\* process exits with status 1 after a reply that carries exactly one ERROR
\* message naming all N missing options.
C5_MissingOptionsReported ==
    (Negotiating /\ command.metadata.searchinfo = "ok" /\ pc \notin {"getinfo", "parse"} /\ RequiredUnset # {}
        /\ exec.exception # "ValueError")
        => /\ command.prepared = 0
           /\ Len(ifile.read) = 1
           /\ ~ifile.eof
           /\ pc \in {"reply", "exited"}
           /\ pc = "exited" =>
                /\ exit_status = "1"
                /\ Len(ReplyChunks(record_writer.ofile)) = 1
                /\ Cardinality(MissingReports(ReplyChunks(record_writer.ofile)[1])) = 1

\* Both required options were missing and the process has exited.
C5_Witness ==
    /\ Negotiating
    /\ command.metadata.searchinfo = "ok"
    /\ pc = "exited"
    /\ Cardinality(RequiredUnset) = 2
    /\ exit_status = "1"

\* ----------------------------------------------------------------------- C6
\* C6: after a successful negotiation every record the callback yielded is
\* a row of an emitted output chunk, in yield order; an echo command fed one
\* execute chunk with finished=true and data rows emits a chunk with
\* finished=true that holds the header row and the same data rows.
C6_YieldedRecordsAreWritten ==
    (Negotiating /\ pc = "exited")
        => /\ Serials(AllRows(OutputChunks(record_writer.ofile))) = Serials(exec.yielded)
           /\ (command.kind = "echo" /\ Len(ifile.read) = 2 /\ ifile.read[2].action = "execute"
                 /\ ifile.read[2].finished = "True" /\ Len(ifile.read[2].body) > 1)
               => \E i \in DOMAIN OutputChunks(record_writer.ofile) :
                    /\ FlagOf(OutputChunks(record_writer.ofile)[i], "finished") = "True"
                    /\ RowsOf(OutputChunks(record_writer.ofile)[i].body) = ifile.read[2].body

\* ----------------------------------------------------------------------- C7
\* C7: the engine alternates with the host: when it reads an execute chunk
\* it has written an output chunk for every execute chunk it read before.
C7_ReadWriteAlternate ==
    Negotiating =>
        Cardinality({i \in 2..Len(ifile.read) : ifile.read[i].action = "execute"})
            <= Len(OutputChunks(record_writer.ofile)) + 1

\* ----------------------------------------------------------------------- C8
\* C8: the loop over the input chunks ends only at end-of-stream or after a
\* chunk with finished=true, and no chunk is read after a chunk with
\* finished=true.
C8_LoopEndsAtEofOrFinished ==
    /\ (Negotiating /\ exec.gen = "returned")
        => (ifile.eof \/ ifile.read[Len(ifile.read)].finished = "True")
    /\ \A i \in 2..(Len(ifile.read) - 1) : ifile.read[i].finished # "True"

\* ----------------------------------------------------------------------- C9
\* C9: no output chunk of the execute phase carries finished=true unless an
\* input chunk with finished=true was read.
C9_FinishedTakenFromInput ==
    Negotiating =>
        \A i \in DOMAIN OutputChunks(record_writer.ofile) :
            FlagOf(OutputChunks(record_writer.ofile)[i], "finished") = "True"
                => \E k \in DOMAIN ifile.read : ifile.read[k].finished = "True"

\* ---------------------------------------------------------------------- C10
\* C10: when an exception escapes the processing callback the process exits
\* with status 1 after an output chunk that carries exactly one ERROR
\* message and finished=true.
C10_CallbackErrorFlushedFinished ==
    (pc = "exited" /\ exec.exception = "RuntimeError: Testing")
        => LET out == OutputChunks(record_writer.ofile) IN
           /\ exit_status = "1"
           /\ Len(out) >= 1
           /\ "inspector" \in DOMAIN out[Len(out)].metadata
           /\ Cardinality({i \in DOMAIN out[Len(out)].metadata.inspector.messages :
                              out[Len(out)].metadata.inspector.messages[i][1] = "ERROR"}) = 1
           /\ FlagOf(out[Len(out)], "finished") = "True"

\* ---------------------------------------------------------------------- C11
ErrorMessages(chunk) ==
    IF "inspector" \notin DOMAIN chunk.metadata THEN {}
    ELSE {i \in DOMAIN chunk.metadata.inspector.messages :
            chunk.metadata.inspector.messages[i][1] = "ERROR"}

\* The chunks read so far that violate the protocol: a first chunk that is
\* not a getinfo chunk with an empty body, a later chunk that is not an
\* execute chunk.
Violations ==
    {i \in DOMAIN ifile.read :
        IF i = 1 THEN ifile.read[1].action # "getinfo" \/ Len(ifile.read[1].body) > 0
        ELSE ifile.read[i].action # "execute"}

C12_NoShortChunk ==
    \A k \in DOMAIN stream.log :
        stream.log[k].result = "chunk"
            => /\ stream.log[k].metadata_read = stream.log[k].metadata_length
               /\ Len(stream.log[k].chunk.body) = stream.log[k].body_length

\* ---------------------------------------------------------------------- C13
\* The position in the stream at which frame k of the host starts.
FrameStart(k) == Len(StreamText(SubSeq(stream.frames, 1, k - 1)))

\* The position at which call k of read_chunk started.
CallStart(k) == IF k = 1 THEN 0 ELSE stream.log[k - 1].pos

\* C13: read_chunk at a frame that is completely in the stream, has a
\* well-formed header and declares a metadata length of 0 returns a chunk
\* with the body of the frame.
C13_EmptyMetadataAccepted ==
    \A k \in DOMAIN stream.log :
        (/\ k <= Len(stream.frames)
         /\ CallStart(k) = FrameStart(k)
         /\ FrameStart(k + 1) <= Len(stream.data)
         /\ WellFormed(stream.frames[k])
         /\ stream.frames[k].metadata = <<>>)
            => /\ stream.log[k].result = "chunk"
               /\ stream.log[k].chunk.body = stream.frames[k].body

\* ---------------------------------------------------------------------- C14
\* C14: on a stream that is a sequence of well-formed frames the k-th call
\* of read_chunk returns the metadata and the body of the k-th frame and
\* leaves the stream at the start of the next frame, whatever the body
\* holds; the call after the last frame, and no other, returns
\* end-of-stream.
C14_FramesReadInOrder ==
    (stream.cut = 0 /\ \A i \in DOMAIN stream.frames : WellFormed(stream.frames[i]))
        => \A k \in DOMAIN stream.log :
              IF k <= Len(stream.frames)
              THEN /\ stream.log[k].result = "chunk"
                   /\ stream.log[k].pos = FrameStart(k + 1)
                   /\ stream.log[k].chunk.body = stream.frames[k].body
                   /\ stream.frames[k].metadata # <<>>
                        => stream.log[k].chunk.metadata = decode(stream.frames[k].metadata).object
              ELSE stream.log[k].result = "None"

\* ---------------------------------------------------------------------- C17
IsStringList(value) ==
    /\ value.type = "list"
    /\ \A i \in DOMAIN value.v : value.v[i].type = "str"

TextsOf(value) == [i \in DOMAIN value.v |-> value.v[i].v]

RECURSIVE Join(_, _)
Join(texts, separator) ==
    IF texts = <<>> THEN <<>>
    ELSE IF Len(texts) = 1 THEN texts[1]
    ELSE texts[1] \o separator \o Join(Tail(texts), separator)

Escaped(text) == Join([i \in DOMAIN text |-> IF text[i] = "$" THEN <<"$", "$">> ELSE <<text[i]>>], <<>>)

StringOf(item) ==
    CASE item.type = "NoneType" -> <<>>
      [] item.type = "bool" -> IF item.v = <<TRUE>> THEN <<"t">> ELSE <<"f">>
      [] item.type = "int" -> Decimal(item.v[1])
      [] item.type = "str" -> item.v

\* C18: _encode_value returns (None, None) for the empty list, (the string
\* of the element, None) for a list of one element, and for a longer list
\* the strings of the elements joined by a newline together with '$', the
\* strings with every '$' doubled joined by '$;$', and '$'; for a value
\* that is no list it returns (its string, None), the string of None being
\* empty and that of a boolean 't' or 'f'.
C18_EncodeValueCases ==
    (codec.input = "value" /\ codec.step # "new")
        => LET value == codec.value
               strings == [i \in DOMAIN value.v |-> StringOf(value.v[i])]
           IN IF value.type # "list"
              THEN codec.encoded = [sv |-> Present(StringOf(value)), mv |-> Absent]
              ELSE IF Len(value.v) = 0
              THEN codec.encoded = [sv |-> Absent, mv |-> Absent]
              ELSE IF Len(value.v) = 1
              THEN codec.encoded = [sv |-> Present(strings[1]), mv |-> Absent]
              ELSE codec.encoded =
                      [sv |-> Present(Join(strings, <<"\n">>)),
                       mv |-> Present(<<"$">> \o
                                      Join([i \in DOMAIN strings |-> Escaped(strings[i])], <<"$", ";", "$">>) \o
                                      <<"$">>)]

\* The list ['a$', ''] was encoded.
C18_Witness ==
    /\ codec.input = "value"
    /\ codec.step = "encoded"
    /\ codec.value = ListValue(<<StrValue(<<"a", "$">>), StrValue(<<>>)>>)
    /\ codec.encoded.mv = Present(<<"$", "a", "$", "$", "$", ";", "$", "$">>)

\* ---------------------------------------------------------------------- C19
\* Is every '$' of the text one of a pair?
RECURSIVE IsEscaped(_)
IsEscaped(text) ==
    \/ text = <<>>
    \/ text[1] # "$" /\ IsEscaped(Tail(text))
    \/ StartsWith(text, 1, <<"$", "$">>) /\ IsEscaped(Tail(Tail(text)))

\* Is the text a sequence of $...$ segments separated by ';'?
RECURSIVE IsEncodedList(_)
IsEncodedList(text) ==
    /\ Len(text) >= 2
    /\ text[1] = "$"
    /\ \E close \in 2..Len(text) :
          /\ text[close] = "$"
          /\ IsEscaped(SubSeq(text, 2, close - 1))
          /\ \/ close = Len(text)
             \/ /\ close + 1 <= Len(text)
                /\ text[close + 1] = ";"
                /\ IsEncodedList(SubSeq(text, close + 2, Len(text)))

\* C19: for every text that is not empty and not a sequence of $...$
\* segments separated by ';', _decode_list raises no error and returns no
\* items.
C19_MalformedDecodesToNothing ==
    (codec.input = "text" /\ codec.step = "decoded" /\ codec.text # Present(<<>>)
        /\ ~IsEncodedList(codec.text[1]))
        => /\ codec.error = None
           /\ codec.decoded = <<>>

\* ---------------------------------------------------------------------- C15
\* C15: no frame on the output stream has a metadata field whose value is
\* None, and no frame has both an empty metadata object and an empty body:
\* when nothing remains to send, _write_chunk writes nothing.
C15_NothingWrittenWhenEmpty ==
    pc = "writer" =>
        \A i \in DOMAIN record_writer.ofile :
            LET frame == record_writer.ofile[i] IN
            frame.kind = "chunk" =>
                /\ \A k \in DOMAIN frame.metadata \cap {"finished", "partial"} : frame.metadata[k] # None
                /\ "inspector" \in DOMAIN frame.metadata => InspectorLen(frame.metadata.inspector) > 0
                /\ ~(DOMAIN frame.metadata = {} /\ frame.text = <<>>)

\* ---------------------------------------------------------------------- C16
\* C16: every frame _write_chunk emits starts with the line
\* 'chunked 1.0,<metaLen>,<bodyLen>' whose two numbers are the lengths of
\* the encoded metadata and of the body text that follow it, and the output
\* stream is flushed after the frame.
C16_FramesCarryExactLengths ==
    pc = "writer" =>
        \A i \in DOMAIN record_writer.ofile :
            LET frame == record_writer.ofile[i]
                header == header_match(frame.start_line)
            IN frame.kind = "chunk" =>
                /\ header.matched
                /\ StartsWith(frame.start_line, 1, Chunked \o <<" ", "1", ".", "0", ",">>)
                /\ \A j \in DOMAIN frame.start_line : j > Len(Chunked) + 1 => ~IsSpace(frame.start_line[j]) \/ j = Len(frame.start_line)
                /\ header.metadata_length = MetadataLength(frame.metadata)
                /\ header.body_length = Len(frame.text)
                /\ frame.text = getvalue(frame.body)
                /\ frame.flushed

\* A frame with records in its body and flags in its metadata was written,
\* and another frame after it.
C16_Witness ==
    /\ pc = "writer"
    /\ \E i \in DOMAIN record_writer.ofile :
          /\ record_writer.ofile[i].kind = "chunk"
          /\ Len(record_writer.ofile[i].text) > 9
          /\ DOMAIN record_writer.ofile[i].metadata # {}
          /\ \E j \in DOMAIN record_writer.ofile : j > i /\ record_writer.ofile[j].kind = "chunk"

\* ---------------------------------------------------------------------- C20
IsStringValue(value) == value.type = "str"

NameTexts(fields) == [i \in DOMAIN fields |-> NameText(fields[i])]

RoundTripDone == pc = "codec" /\ codec.input = "record" /\ codec.step = "read"

\* The records read back are the one record written: same field names in
\* the same order, same values.
ReadsBackTheSame ==
    /\ codec.error = None
    /\ Len(codec.read) = 1
    /\ codec.read[1].fields = NameTexts(codec.record.fields)
    /\ codec.read[1].values = codec.record.values

CellText(cell) == IF cell = Absent THEN <<>> ELSE cell[1]

\* The last chunk written.
LastChunk == record_writer.ofile[Len(record_writer.ofile)]

\* The rows of a body: the header row made of the keys of the first of the
\* records written, then one row of 2k columns for each of the records
\* that the body holds (the last ones written), the two columns of a key
\* the record lacks being empty.
HeaderOfFirst(text, written) ==
    LET rows == reader(text, 1, parse_reset, <<>>).rows
        fields == written[1].fields
        k == Len(fields)
        skipped == Len(written) - (Len(rows) - 1)
    IN /\ Len(rows) >= 2
       /\ skipped >= 0
       /\ Len(rows[1]) = 2 * k
       /\ \A j \in 1..k : /\ rows[1][2 * j - 1] = NameText(fields[j])
                          /\ rows[1][2 * j] = MvPrefix \o NameText(fields[j])
       /\ \A i \in 2..Len(rows) :
            LET record == written[skipped + i - 1] IN
            /\ Len(rows[i]) = 2 * k
            /\ \A j \in 1..k :
                 IF HasKey(record, fields[j])
                 THEN /\ rows[i][2 * j - 1] = CellText(encode_value(get(record, fields[j])).sv)
                      /\ rows[i][2 * j] = CellText(encode_value(get(record, fields[j])).mv)
                 ELSE rows[i][2 * j - 1] = <<>> /\ rows[i][2 * j] = <<>>

ChunkWithBodyEmitted ==
    /\ pc = "writer"
    /\ calls.emitted
    /\ LastChunk.text # <<>>

\* C21 as stated: the header of every emitted chunk body is built from the
\* keys of the first record written since the previous flush, and every
\* following row has the 2k columns of that header, empty for a key its
\* record lacks.
C21_HeaderFromFirstSinceFlush ==
    ChunkWithBodyEmitted =>
        /\ calls.sent_since_flush # <<>>
        /\ HeaderOfFirst(LastChunk.text, calls.sent_since_flush)

\* C21 amended: the same with the first record written since the buffer was
\* last cleared, by a flush that emitted a chunk or by write_metadata.
C21_HeaderFromFirstOfBatch ==
    ChunkWithBodyEmitted =>
        /\ calls.sent # <<>>
        /\ Len(reader(LastChunk.text, 1, parse_reset, <<>>).rows) = Len(calls.sent) + 1
        /\ HeaderOfFirst(LastChunk.text, calls.sent)

\* A chunk whose first record has the keys a, b and whose second record has
\* the key a only.
C21_Witness ==
    /\ ChunkWithBodyEmitted
    /\ Len(calls.sent) = 2
    /\ calls.sent[1].fields = <<"a", "b">>
    /\ calls.sent[2].fields = <<"a">>

\* ---------------------------------------------------------------------- C22
\* The tokens of searchinfo.args that name no declared option or carry a
\* value the validator of their option rejects.
Rejected(arg) == arg.eq /\ (arg.name \notin OptionNames \/ ~validate(arg.name, arg.value))

\* The ERROR messages of the argument loop among the messages of an
\* inspector, in order.
ArgumentErrors(messages) ==
    SelectSeq(messages, LAMBDA m : m[1] = "ERROR" /\ m[2].msg \in {"Unrecognized option", "Illegal value"})

\* C22: once the arguments of a getinfo chunk are parsed, fieldnames holds
\* the tokens without '=' in their order, the inspector holds one ERROR
\* message for each token with an undeclared name or a rejected value, in
\* their order, and an option is marked set exactly when a token assigned
\* it a value its validator accepts.
C22_EveryTokenProcessed ==
    (Negotiating /\ command.metadata.searchinfo = "ok" /\ pc \in {"prepare", "reply"})
        => LET args == command.metadata.args
               plain == SelectSeq(args, LAMBDA arg : ~arg.eq)
               bad == SelectSeq(args, Rejected)
               errors == ArgumentErrors(record_writer.inspector.messages)
           IN /\ command.fieldnames = [i \in DOMAIN plain |-> plain[i].name]
              /\ Len(errors) = Len(bad)
              /\ \A i \in DOMAIN errors :
                    /\ errors[i][2].names[1] = bad[i].name
                    /\ errors[i][2].msg = IF bad[i].name \in OptionNames THEN "Illegal value"
                                          ELSE "Unrecognized option"
              /\ \A n \in OptionNames :
                    command.options[n].is_set <=>
                        \E i \in DOMAIN args : args[i].eq /\ args[i].name = n /\ validate(n, args[i].value)

\* ---------------------------------------------------------------------- C23
\* The names of the options declared required, in the order of the view.
RequiredNames ==
    LET required == SelectSeq(OptionDefinitions, LAMBDA d : d.require) IN
    [i \in DOMAIN required |-> required[i].name]

\* get_missing() returned None exactly when every required option was
\* marked set.
NoneWhenAllRequiredSet ==
    (client.api = "options" /\ client.last.op = "get_missing")
        => (client.last.missing = <<>>
                <=> \A n \in OptionNames : Definition(n).require => command.options[n].is_set)

C25_RenderedSettings ==
    (client.api = "settings" /\ client.last.op = "items")
        => /\ raised = None
           /\ client.last.items = Applicable(command.configuration, command.protocol_version)

\* ---------------------------------------------------------------------- C26
\* C26: the negotiation reply of a streaming command carries the type
\* "streaming" when its distributed setting is true and "stateful" when it
\* is not, and it does not carry the distributed setting.
C26_StreamingReplyType ==
    (client.api = "settings" /\ client.class = "StreamingCommand" /\ client.last.op = "write_metadata")
        => LET replies == ReplyChunks(record_writer.ofile) IN
           /\ raised = None
           /\ Len(replies) = 1
           /\ \E i \in DOMAIN SettingsOf(replies[1]) :
                SettingsOf(replies[1])[i] =
                    <<"type", IF command.distributed = "True" THEN "streaming" ELSE "stateful">>
           /\ \A i \in DOMAIN SettingsOf(replies[1]) : SettingsOf(replies[1])[i][1] # "distributed"

\* ---------------------------------------------------------------------- C27
\* The supplied settings name an unknown setting of the class, a fixed one,
\* or give a value that fails the type or the constraint of its setting.
DeclaredNames(class) == {Members(class)[i].name : i \in DOMAIN Members(class)}

FixedNames(class) == {Members(class)[i].name : i \in {k \in DOMAIN Members(class) : IsReadonly(Members(class)[k])}}

BadSettings(class, settings) ==
    \E n \in DOMAIN settings :
        \/ n \notin DeclaredNames(class)
        \/ n \in FixedNames(class)
        \/ validate_configuration_setting(n, settings[n]) # None

\* C27: applying Configuration(**settings) to a command class that
\* overrides its processing method fails when a supplied name is not a
\* setting of the class, names a fixed setting, or has a value that fails
\* the type or the constraint of the setting; otherwise it succeeds and
\* every supplied value is the value of its setting in the class.
C27_DeclarationErrors ==
    (client.api = "declaration" /\ client.declared
        /\ ConfigurationSettings_fix_up(client.class, client.overridden) = None)
        => IF BadSettings(client.class, client.settings)
           THEN raised # None
           ELSE raised = None /\ client.values = client.settings

\* ---------------------------------------------------------------------- C28
\* C28: the declaration of a generating, streaming, eventing or reporting
\* command class that does not override the processing method of its kind
\* fails when the Configuration decorator is applied.
C28_MissingOverrideFailsDeclaration ==
    (client.api = "declaration" /\ client.declared
        /\ ProcessingMethod(client.class) # None
        /\ ProcessingMethod(client.class) \notin client.overridden)
        => raised # None

\* A streaming command class without settings and without stream was
\* declared, and the decorator raised the error of the missing override.
C28_Witness ==
    /\ client.api = "declaration"
    /\ client.declared
    /\ client.class = "StreamingCommand"
    /\ client.settings = <<>>
    /\ "stream" \notin client.overridden
    /\ raised = "AttributeError"

\* ---------------------------------------------------------------------- C29
\* The method the phase option selects.
SelectedPhase(value) == IF value = "map" THEN "map" ELSE "reduce"

\* C29: a reporting command that overrides map and reduce runs map on the
\* input records when its phase option is 'map' and reduce when phase is
\* 'reduce' or was not supplied, and the settings of its negotiation reply
\* are those of the selected phase; any other phase value is rejected as
\* an illegal option value.
C29_PhaseSelectsMethodAndSettings ==
    (client.api = "reporting" /\ client.step = "done" /\ client.decorated
        /\ client.settings = <<>> /\ client.overridden = ReportingMethods)
        => IF client.phase_arg \in {None, "map", "reduce"}
           THEN /\ client.ran = SelectedPhase(client.phase_arg)
                /\ client.reply =
                     << Applicable(ReportingCommand_new_configuration_settings(
                                       SelectedPhase(client.phase_arg), client.overridden).configuration, 2) >>
           ELSE client.illegal

\* ---------------------------------------------------------------------- C30
\* The body of a quoted value is made of characters other than the quote
\* and the backslash, of pairs of quotes and of backslash pairs.
RECURSIVE QuotedBody(_)
QuotedBody(body) ==
    IF body = <<>> THEN TRUE
    ELSE IF Head(body) = "\\" THEN Len(body) >= 2 /\ QuotedBody(SubSeq(body, 3, Len(body)))
    ELSE IF Head(body) = "\""
    THEN Len(body) >= 2 /\ body[2] = "\"" /\ QuotedBody(SubSeq(body, 3, Len(body)))
    ELSE QuotedBody(Tail(body))

\* The text a well-formed body stands for: every pair is one character.
RECURSIVE Literal(_)
Literal(body) ==
    IF body = <<>> THEN <<>>
    ELSE IF Head(body) \in {"\\", "\""} THEN <<body[2]>> \o Literal(SubSeq(body, 3, Len(body)))
    ELSE <<Head(body)>> \o Literal(Tail(body))

\* The value has an opening and a matching closing quote.
Matched(string) ==
    /\ Len(string) >= 2
    /\ string[Len(string)] = "\""
    /\ QuotedBody(SubSeq(string, 2, Len(string) - 1))

\* C30: unquote strips the enclosing quotes of a quoted value and replaces
\* each pair of quotes and each backslash-escaped character inside it by
\* the one literal character; it leaves an unquoted value without escapes
\* unchanged; it raises an error for every value that begins with a quote
\* that has no matching closing quote.
C30_Unquote ==
    (client.api = "parser" /\ client.called)
        => LET string == client.string IN
           IF string # <<>> /\ string[1] = "\""
           THEN IF Matched(string)
                THEN raised = None /\ client.text = Literal(SubSeq(string, 2, Len(string) - 1))
                ELSE raised # None
           ELSE (\A i \in DOMAIN string : string[i] \notin {"\\", "\""})
                    => raised = None /\ client.text = string

\* ---------------------------------------------------------------------- C33
\* Every call so far was a write_record.
OnlyWrites == calls.only_writes /\ calls.last.op \in {None, "write_record"}

\* Every call but the last was a write_record, and the last was
\* flush(finished=True).
WritesThenFinish ==
    calls.only_writes /\ calls.last.op = "flush" /\ calls.last.finished = "True"

\* C33: after n write_record calls on a writer of either protocol version
\* with maxresultrows m and no explicit flush, chunk_count is n div m,
\* record_count is n mod m and total_record_count is m * (n div m); after
\* a following flush(finished=True) record_count is 0, the buffer is empty
\* and total_record_count is n; all along total_record_count +
\* record_count is the number of records written.
C33_RecordAccounting ==
    LET n == calls.writes
        m == record_writer.maxresultrows
    IN /\ OnlyWrites =>
            /\ record_writer.chunk_count = n \div m
            /\ record_writer.record_count = n % m
            /\ record_writer.total_record_count = m * (n \div m)
       /\ WritesThenFinish =>
            /\ record_writer.record_count = 0
            /\ record_writer.buffer = <<>>
            /\ record_writer.total_record_count = n
       /\ (OnlyWrites \/ WritesThenFinish) =>
            record_writer.total_record_count + record_writer.record_count = n

\* ---------------------------------------------------------------------- C35
\* C35: whenever a writer of either class is marked finished, its record
\* count is 0 and its inspector is empty, and no call ends with the
\* assertion failure of _ensure_validity.
C35_ClosedWriterInvariant ==
    /\ record_writer.finished =>
            record_writer.record_count = 0 /\ InspectorLen(record_writer.inspector) = 0
    /\ raised # "AssertionError"

\* ---------------------------------------------------------------------- C37
\* The inspector messages of one element of the output.
MessagesOf(element) ==
    IF "inspector" \in DOMAIN element.metadata THEN element.metadata.inspector.messages ELSE <<>>

\* The inspector messages of the output, in the order written.
RECURSIVE MessagesWritten(_)
MessagesWritten(ofile) ==
    IF ofile = <<>> THEN <<>> ELSE MessagesOf(Head(ofile)) \o MessagesWritten(Tail(ofile))

\* C37: for both record writers, the messages written to the output
\* followed by the ones still in the inspector are the messages
\* write_message accepted, each once and in order, and a flush or a
\* write_metadata that returns leaves no message in the inspector.
C37_NoMessageLostOrDuplicated ==
    /\ MessagesWritten(record_writer.ofile) \o record_writer.inspector.messages = calls.messages
    /\ (calls.last.op \in {"flush", "write_metadata"} /\ raised = None)
            => record_writer.inspector.messages = <<>>

\* ---------------------------------------------------------------------- C34
\* C34: for every text over '$', ';' and an ordinary character, the empty
\* text included, the byte scanner and the regex-based decoder return the
\* same list.
C34_DecodersAgree ==
    (client.api = "decoders" /\ client.called)
        => /\ client.scanned.result = "list"
           /\ client.scanned.list = client.matched

\* ---------------------------------------------------------------------- C31
\* C31: under the legacy protocol, process() with an argv[1] that is
\* neither __GETINFO__ nor __EXECUTE__ writes an error message about the
\* unsupported static configuration to the output and ends by raising
\* SystemExit with a non-zero status; no other exception leaves process().
C31_UnsupportedPhaseReported ==
    (client.api = "legacy" /\ pc = "exited" /\ client.argv1 \notin {"__GETINFO__", "__EXECUTE__"})
        => /\ client.escaped = "SystemExit"
           /\ exit_status = "1"
           /\ \E i \in DOMAIN MessagesWritten(record_writer.ofile) :
                MessagesWritten(record_writer.ofile)[i] =
                    <<"ERROR", Text("RuntimeError: static configuration is unsupported", <<>>)>>

\* ---------------------------------------------------------------------- C32
\* C32: when the first input frame is 'chunked 1.0,0,0' and the command
\* declares a required option that is not supplied, the process emits an
\* inspector error message that mentions the option, still writes a
\* well-formed reply chunk, and exits with a non-zero status.
C32_EmptyFrameReportsMissingOption ==
    (client.api = None /\ pc = "exited" /\ ifile.read = <<EmptyFrame>>)
        => LET said == MessagesWritten(record_writer.ofile) IN
           /\ exit_status = "1"
           /\ \E i \in DOMAIN said :
                /\ said[i][1] = "ERROR"
                /\ \E k \in DOMAIN said[i][2].names, j \in DOMAIN RequiredNames :
                     said[i][2].names[k] = RequiredNames[j]
           /\ \E i \in DOMAIN record_writer.ofile :
                /\ record_writer.ofile[i].kind = "chunk"
                /\ record_writer.ofile[i].start_line =
                     start_line(MetadataLength(record_writer.ofile[i].metadata),
                                Len(record_writer.ofile[i].text))

\* ---------------------------------------------------------------------- C36
\* What repeated _read_chunk calls make of the output from its element i
\* on: the (metadata, body) pairs of the frames they recover, ended by the
\* error of the call that fails.  A reader takes the next line for a header
\* line; the line feed write_metadata adds is such a line.
RECURSIVE ReadOutput(_, _)
ReadOutput(ofile, i) ==
    IF i > Len(ofile) THEN <<>>
    ELSE LET header == IF ofile[i].kind = "chunk" THEN ofile[i].start_line
                       ELSE readline(ofile[i].text, 0)
             match == header_match(header)
         IN IF ~match.matched THEN << "RuntimeError: Failed to parse transport header" >>
            ELSE IF match.metadata_length # MetadataLength(ofile[i].metadata)
                    \/ match.body_length # Len(ofile[i].text)
            THEN << "RuntimeError: Failed to parse metadata" >>
            ELSE << <<ofile[i].metadata, ofile[i].text>> >> \o ReadOutput(ofile, i + 1)

\* The (metadata, body) pairs _write_chunk was given, in the order written.
PairsWritten(ofile) ==
    LET chunks == Chunks(ofile) IN [i \in DOMAIN chunks |-> <<chunks[i].metadata, chunks[i].text>>]

\* C36: the output of a protocol-2 invocation, the negotiation reply and
\* the chunks after it, is a concatenation of well-formed frames and
\* nothing else: repeated read_chunk calls on it recover exactly the
\* (metadata, body) pairs that were written.
C36_OutputIsFramesOnly ==
    (client.api = None /\ pc # "writer")
        => /\ \A i \in DOMAIN record_writer.ofile : record_writer.ofile[i].kind = "chunk"
           /\ ReadOutput(record_writer.ofile, 1) = PairsWritten(record_writer.ofile)

\* ---------------------------------------------------------------------- C38
\* The value of streaming_preop in a list of settings, None when it is not
\* set.
StreamingPreop(configuration) ==
    IF \E i \in DOMAIN configuration : configuration[i].name = "streaming_preop"
    THEN configuration[CHOOSE i \in DOMAIN configuration : configuration[i].name = "streaming_preop"].value
    ELSE None

\* C38: a reporting command advertises a streaming_preop in the settings
\* of its reduce phase only if its class overrides map; a reporting command
\* without a map override has requires_preop false and never asks the host
\* to run its map phase.
C38_PreopOnlyWithMap ==
    (client.api = "reporting" /\ client.step # "class" /\ client.decorated
        /\ client.settings = <<>> /\ client.overridden = {"reduce"})
        => /\ client.requires_preop = "False"
           /\ StreamingPreop(ReportingCommand_new_configuration_settings(
                                 "reduce", client.overridden).configuration) = None

\* ---------------------------------------------------------------------- C39
\* The messages of the argument parsing: one per option error.
OptionErrors ==
    {"Unrecognized option", "Illegal value", "A value is required",
     "Values for these required options are missing"}

\* An option error was reported: it is in the inspector or in the output.
OptionErrorReported ==
    LET said == MessagesWritten(record_writer.ofile) \o record_writer.inspector.messages
    IN \E i \in DOMAIN said : said[i][1] = "ERROR" /\ said[i][2].msg \in OptionErrors

\* Every token of the negotiation arguments is a field name or an option
\* the command has with a value the option accepts.
ParsedWithoutError(args) ==
    \A i \in DOMAIN args : args[i].eq => args[i].name \in OptionNames /\ validate(args[i].name, args[i].value)

\* prepare() is called in this step.
PrepareCalled == command'.prepared # command.prepared

\* C39: in a protocol-2 invocation prepare() is called at most once, only
\* after every negotiation argument was parsed without error and with all
\* required options set, and always before the negotiation reply is
\* written; when an option error was reported prepare() is never called.
C39_PrepareOnceAfterCleanParse ==
    /\ [](client.api = None =>
            /\ command.prepared <= 1
            /\ OptionErrorReported => command.prepared = 0
            /\ (pc = "execute" \/ (pc = "exited" /\ exit_status = "0")) => command.prepared = 1)
    /\ [][(client.api = None /\ PrepareCalled) =>
            /\ command.prepared = 0
            /\ command'.prepared = 1
            /\ ParsedWithoutError(command.metadata.args)
            /\ get_missing(command.options) = <<>>
            /\ ~OptionErrorReported
            /\ record_writer.ofile = <<>>]_vars

\* prepare() was called for arguments that set the required options, and
\* the negotiation reply was written after it.
C39_Witness ==
    /\ client.api = None
    /\ command.prepared = 1
    /\ command.metadata.args # <<>>
    /\ pc = "execute"
    /\ ReplyChunks(record_writer.ofile) # <<>>

\* ---------------------------------------------------------------------- C40
\* A _read_chunk call is made in this step.
ChunkRead == ifile' # ifile

\* The last chunk consumed carried finished=true.
FinishedConsumed == ifile.read # <<>> /\ ifile.read[Len(ifile.read)].finished = "True"

\* A final flush was attempted: flush(finished=True) ran to its end, or
\* the flush or the write_metadata of the path taken reached the output
\* and left nothing in the inspector and in the buffer.
FinalFlushAttempted ==
    \/ record_writer.finished
    \/ /\ record_writer.ofile # <<>>
       /\ record_writer.inspector = EmptyInspector
       /\ record_writer.record_count = 0

\* C40: for every finite input and every callback that yields finitely
\* many records process() eventually returns or exits; it reads no chunk
\* after the end of the stream was seen or after a chunk with finished=true
\* was consumed; and every exit path performs a final flush attempt.
C40_TerminatesWithFinalFlush ==
    /\ <>(pc = "exited")
    /\ [][ChunkRead => ~ifile.eof /\ ~FinishedConsumed]_vars
    /\ [](pc = "exited" => FinalFlushAttempted)

====
